---- MODULE Spec2Model ----
(* Path realizability and bounded path enumeration of uppaal-py            *)
(* (lib/uppaalpy/path_analysis.py and the classes it walks over).          *)
(*                                                                         *)
(* One template is held in the state.  Its graph (locations, transitions,  *)
(* update labels, declarations) is what Template.from_element built; its   *)
(* guard and invariant labels change through create_constraint_label and   *)
(* remove_constraint_label.  The analysis functions are called on it and   *)
(* leave their result in the state.                                        *)
(*                                                                         *)
(* Conventions: a side of an expression ("x - y", "10") is the sequence of *)
(* its stripped tokens split on "-"; a label that is None is the empty     *)
(* sequence of constraints; locations are named by the number in their id  *)
(* ("id0" is 0) and transitions by their index in graph._transitions; LP   *)
(* right-hand sides are held in units of EPS (2^-10).                      *)
EXTENDS Integers, Sequences, FiniteSets, TLC

(***************************************************************************)
(* Bounds of the model.                                                    *)
(***************************************************************************)
\* Largest number of guard/invariant labels the template carries at once.
MaxLabels == 1
\* Longest path handed to the realizability check, in transitions.
MaxSegments == 2
\* Largest max_length handed to find_all_semi_realizable_paths.
MaxLength == 3

(***************************************************************************)
(* Generic helpers.                                                        *)
(***************************************************************************)
None == "None"

Range(s) == {s[i] : i \in DOMAIN s}

Abs(n) == IF n < 0 THEN -n ELSE n

RECURSIVE Gcd(_, _)
Gcd(a, b) == IF b = 0 THEN a ELSE Gcd(b, a % b)

\* gcd of acc and the numbers of a sequence
RECURSIVE GcdAll(_, _)
GcdAll(acc, s) ==
    IF s = <<>> THEN acc ELSE GcdAll(Gcd(acc, Abs(Head(s))), Tail(s))

\* concatenation of a sequence of sequences
RECURSIVE Flatten(_)
Flatten(ss) == IF ss = <<>> THEN <<>> ELSE Head(ss) \o Flatten(Tail(ss))

\* the elements of a finite set of integers in increasing order
RECURSIVE SortedSeq(_)
SortedSeq(S) ==
    IF S = {} THEN <<>>
    ELSE LET m == CHOOSE x \in S : \A y \in S : x <= y
         IN  <<m>> \o SortedSeq(S \ {m})

(***************************************************************************)
(* Context (classes/context.py).                                           *)
(***************************************************************************)
\* int(string) for the literals that occur in the model's expressions
IntOf == [s \in {"0", "3", "5", "10", "11"} |->
            CASE s = "0" -> 0 [] s = "3" -> 3 [] s = "5" -> 5
              [] s = "10" -> 10 [] s = "11" -> 11]

\* The context parse_context yields for
\*   clock x, y;   const int N = 10;   int n = 0;
ParsedContext ==
    [clocks |-> {"x", "y"},
     constants |-> [i \in {"N"} |-> 10],
     initial_state |-> [i \in {"n"} |-> 0]]

is_clock(ctx, identifier) == identifier \in ctx.clocks

is_constant(ctx, identifier) == identifier \in DOMAIN ctx.constants

is_variable(ctx, identifier) == identifier \in DOMAIN ctx.initial_state

is_literal(string) == string \in DOMAIN IntOf

\* get_val: a literal, then a constant, then initial_state[identifier]
\* (a KeyError for anything else, which no expression of the model names)
get_val(ctx, identifier) ==
    IF is_literal(identifier) THEN IntOf[identifier]
    ELSE IF is_constant(ctx, identifier) THEN ctx.constants[identifier]
    ELSE ctx.initial_state[identifier]

\* deep copies of the three collections: a value of its own
to_MutableContext(ctx) ==
    [clocks |-> ctx.clocks,
     constants |-> ctx.constants,
     initial_state |-> ctx.initial_state]

set_val(ctx, identifier, val) ==
    [ctx EXCEPT !.initial_state =
        [i \in DOMAIN ctx.initial_state \cup {identifier} |->
            IF i = identifier THEN val ELSE ctx.initial_state[i]]]

(***************************************************************************)
(* Expressions (classes/expr.py).                                          *)
(***************************************************************************)
\* A side is threshold-like when the whole side is one constant, literal
\* or variable; "x - y" never is.
SideIsValue(ctx, side) ==
    /\ Len(side) = 1
    /\ \/ is_constant(ctx, side[1])
       \/ is_literal(side[1])
       \/ is_variable(ctx, side[1])

\* ClockConstraintExpression.__init__ on the tokenized string (lhs, op, rhs)
ClockConstraintExpression(lhs, op, rhs, ctx) ==
    LET left == SideIsValue(ctx, lhs)
    IN  [class |-> "ClockConstraintExpression",
         lhs |-> lhs, op |-> op, rhs |-> rhs,
         threshold_side |-> IF left THEN "left" ELSE "right",
         clocks |-> IF left THEN rhs ELSE lhs,
         operator |-> IF op \in {"<", "<="} THEN "<"
                      ELSE IF op \in {">", ">="} THEN ">" ELSE "=",
         equality |-> op \in {"<=", ">=", "=="}]

\* ConstraintExpression.__init__: a constraint that names no clock
ConstraintExpression(lhs, op, rhs) ==
    [class |-> "ConstraintExpression", lhs |-> lhs, op |-> op, rhs |-> rhs]

\* ConstraintExpression.parse_expr: the clock-aware class when a token of
\* either side is a clock
parse_expr(lhs, op, rhs, ctx) ==
    IF \E tok \in Range(lhs) \cup Range(rhs) : is_clock(ctx, tok)
    THEN ClockConstraintExpression(lhs, op, rhs, ctx)
    ELSE ConstraintExpression(lhs, op, rhs)

isinstance(c, cls) == c.class = cls

\* the threshold property: the side that is not the clock side
threshold(exp) ==
    IF exp.threshold_side = "left" THEN exp.lhs[1] ELSE exp.rhs[1]

\* UpdateExpression.parse_expr: a ClockResetExpression when lhs is a clock
UpdateExpression(lhs, op, rhs, ctx) ==
    [lhs |-> lhs, op |-> op, rhs |-> rhs, is_reset |-> is_clock(ctx, lhs)]

\* UpdateExpression.handle_update that sets nothing
NoUpdate(u, ctx) == ctx

\* UpdateExpression.handle_update
handle_update(u, ctx) ==
    LET cur == get_val(ctx, u.lhs)
        rhs == get_val(ctx, u.rhs)
    IN  CASE u.op = "="  -> set_val(ctx, u.lhs, rhs)
          [] u.op = "+=" -> set_val(ctx, u.lhs, cur + rhs)
          [] u.op = "-=" -> set_val(ctx, u.lhs, cur - rhs)

\* "for u in updates_in_transition: u.handle_update(ctx)"
RECURSIVE HandleUpdates(_, _)
HandleUpdates(updates, ctx) ==
    IF updates = <<>> THEN ctx
    ELSE HandleUpdates(Tail(updates), handle_update(Head(updates), ctx))

\* UpdateLabel.get_resets: the clocks of the reset expressions, no repeats
RECURSIVE get_resets(_)
get_resets(updates) ==
    IF updates = <<>> THEN <<>>
    ELSE LET rest == get_resets(Tail(updates))
             e == Head(updates)
         IN  IF e.is_reset
             THEN <<e.lhs>> \o SelectSeq(rest, LAMBDA c : c # e.lhs)
             ELSE rest

\* UpdateLabel.get_other_updates
get_other_updates(updates) == SelectSeq(updates, LAMBDA e : ~e.is_reset)

(***************************************************************************)
(* Paths (path_analysis.py).  A path is <<l, t, l, ..., l>>: location ids  *)
(* at the odd positions, transition indices at the even ones.              *)
(***************************************************************************)
\* The template's objects behind a path element
Invariant(T, l) == T.invariant[l]

Guard(T, t) == T.guard[t]

Assignment(T, t) == T.assignment[t]

\* path_exists checking the source of each transition only
SourcesOnly(T, path) ==
    \A k \in 1..(Len(path) \div 2) : path[2 * k - 1] = T.source[path[2 * k]]

\* path_exists: every transition leads from the location before it to the
\* location after it (range(1, len(path) - 1, 2), 0-based)
path_exists(T, path) ==
    \A k \in 1..(Len(path) \div 2) :
        /\ path[2 * k - 1] = T.source[path[2 * k]]
        /\ path[2 * k + 1] = T.target[path[2 * k]]

\* Location.get_constraints / Transition.get_constraints of the element at
\* position k (1-based)
get_constraints(T, path, k) ==
    IF k % 2 = 1 THEN Invariant(T, path[k]) ELSE Guard(T, path[k])

\* res.sort() on clock names
ClockOrder == <<"x", "y">>

\* find_used_clocks: the clocks of the constraints on the path, sorted
find_used_clocks(T, path) ==
    LET all == UNION {Range(get_constraints(T, path, k)) : k \in 1..Len(path)}
        used == UNION {Range(c.clocks) :
                        c \in {e \in all :
                                  isinstance(e, "ClockConstraintExpression")}}
    IN  SelectSeq(ClockOrder, LAMBDA c : c \in used)

(***************************************************************************)
(* Rows of the linear program.  A row is [a, b]: a[j] is the coefficient   *)
(* of variable j (0-based, as in the source) and the row reads             *)
(* a . x <= b.  b is held in units of EPS.                                 *)
(***************************************************************************)
\* EPS = 2 ** (-10): one unit, Scale units make 1
EPS == 1

Scale == 1024

\* "[x * -1 for x in A_row[0]]", the signs kept
SameSigns(a) == a

\* "[x * -1 for x in A_row[0]]"
Negated(a) == [j \in DOMAIN a |-> -a[j]]

\* "if add_epsilon and not exp.equality: b[0] -= EPS", never taken
NoEpsilon(b, exp, add_epsilon) == b

\* "if add_epsilon and not exp.equality: b[0] -= EPS"
WithEpsilon(b, exp, add_epsilon) ==
    IF add_epsilon /\ exp.equality = FALSE THEN b - EPS ELSE b

\* 'if exp.operator == "=": ...', never taken
OneRow(a, b, exp) == <<[a |-> a, b |-> b]>>

\* 'if exp.operator == "=": A.append([-x for x in a]); B.append(-b[0])'
WithEquality(a, b, exp) ==
    IF exp.operator = "="
    THEN <<[a |-> a, b |-> b], [a |-> Negated(a), b |-> -b]>>
    ELSE <<[a |-> a, b |-> b]>>

\* compute_constraint.  Raises IndexError when a variable index lies
\* outside the row.
compute_constraint(clock_to_delay, exp, variable_count, ctx, add_epsilon, skip_var_threshold) ==
    IF is_variable(ctx, threshold(exp)) /\ skip_var_threshold
    THEN [rows |-> <<>>, raised |-> FALSE]
    ELSE
    LET d1 == Range(clock_to_delay[exp.clocks[1]])
        d2 == IF Len(exp.clocks) = 2
              THEN Range(clock_to_delay[exp.clocks[2]]) ELSE {}
        a0 == [j \in 0..(variable_count - 1) |->
                 (IF j \in d1 THEN 1 ELSE 0) - (IF j \in d2 THEN 1 ELSE 0)]
        b0 == get_val(ctx, threshold(exp)) * Scale
        a1 == IF exp.operator = ">" THEN Negated(a0) ELSE a0
        b1 == IF exp.operator = ">" THEN -b0 ELSE b0
        b2 == WithEpsilon(b1, exp, add_epsilon)
    IN  [rows |-> WithEquality(a1, b2, exp),
         raised |-> \E j \in d1 \cup d2 : j >= variable_count]

(***************************************************************************)
(* The solver (pywraplp, an external collaborator): variables bounded      *)
(* below by 0, rows a . x <= b, Solve() answers OPTIMAL exactly when the   *)
(* system has a solution over the reals.  Decided here by Fourier-Motzkin  *)
(* elimination on integer rows.  A row may carry strict |-> TRUE           *)
(* (a . x < b); the rows the program builds never do.                      *)
(***************************************************************************)
IsStrict(r) == "strict" \in DOMAIN r /\ r.strict

\* divide a row by the gcd of its entries
Normalized(r) ==
    LET g == GcdAll(Abs(r.b), [k \in 1..Cardinality(DOMAIN r.a) |->
                                 r.a[SortedSeq(DOMAIN r.a)[k]]])
    IN  IF g <= 1 THEN [a |-> r.a, b |-> r.b, strict |-> IsStrict(r)]
        ELSE [a |-> [j \in DOMAIN r.a |-> r.a[j] \div g],
              b |-> r.b \div g, strict |-> IsStrict(r)]

\* a row without variables that cannot hold
Contradiction(r) ==
    /\ \A j \in DOMAIN r.a : r.a[j] = 0
    /\ IF r.strict THEN r.b <= 0 ELSE r.b < 0

\* eliminate variable j from a set of rows
Eliminate(R, j) ==
    LET pos == {r \in R : r.a[j] > 0}
        neg == {r \in R : r.a[j] < 0}
        zero == {r \in R : r.a[j] = 0}
        comb(p, n) ==
            Normalized([a |-> [k \in DOMAIN p.a |->
                                  (-n.a[j]) * p.a[k] + p.a[j] * n.a[k]],
                        b |-> (-n.a[j]) * p.b + p.a[j] * n.b,
                        strict |-> p.strict \/ n.strict])
    IN  zero \cup {comb(p, n) : p \in pos, n \in neg}

RECURSIVE FMFeasible(_, _)
FMFeasible(R, vars) ==
    IF \E r \in R : Contradiction(r) THEN FALSE
    ELSE IF vars = {} THEN TRUE
    ELSE LET j == CHOOSE v \in vars : \A w \in vars : v <= w
             live == {r \in R : \E k \in DOMAIN r.a : r.a[k] # 0}
         IN  FMFeasible(Eliminate(live, j), vars \ {j})

\* NumVar(0, infinity): the row -x[j] <= 0
NonNegative(var_count, j) ==
    [a |-> [k \in 0..(var_count - 1) |-> IF k = j THEN -1 ELSE 0],
     b |-> 0, strict |-> FALSE]

\* Is the system feasible?  rows: a sequence of rows over var_count
\* variables.
Feasible(rows, var_count) ==
    FMFeasible({Normalized(r) : r \in Range(rows)}
                  \cup {NonNegative(var_count, j) : j \in 0..(var_count - 1)},
               0..(var_count - 1))

\* the same for a set of rows
FeasibleSet(R, var_count) ==
    FMFeasible({Normalized(r) : r \in R}
                  \cup {NonNegative(var_count, j) : j \in 0..(var_count - 1)},
               0..(var_count - 1))

\* solver.Solve() on the rows A, B: the program's rows are all non-strict
Solve(A, var_count) ==
    IF Feasible([k \in DOMAIN A |-> [a |-> A[k].a, b |-> A[k].b]], var_count)
    THEN "OPTIMAL" ELSE "INFEASIBLE"

(***************************************************************************)
(* path_realizable_with_initial_valuation.                                 *)
(***************************************************************************)
\* The rows of one label: compute_constraint for each clock constraint of
\* the list, in order.  Each row keeps where it came from (the clocks of
\* its constraint with the clock_to_delay lists it was built from, its
\* threshold, whether the constraint is a strict inequality, the segment
\* and the part of the segment); the solver sees a and b only.
LabelRows(constraints, st, var_count, add_epsilon, validate_state, seg, part) ==
    LET cc == SelectSeq(constraints,
                        LAMBDA c : isinstance(c, "ClockConstraintExpression"))
        one(c) == compute_constraint(st.clock_to_delay, c, var_count, st.ctx,
                                     add_epsilon, validate_state)
        tagged(c) == [k \in DOMAIN one(c).rows |->
                        [a |-> one(c).rows[k].a, b |-> one(c).rows[k].b,
                         clocks |-> c.clocks, threshold |-> threshold(c),
                         used |-> [n \in DOMAIN c.clocks |->
                                     st.clock_to_delay[c.clocks[n]]],
                         operator |-> c.operator,
                         strict |-> c.equality = FALSE,
                         seg |-> seg, part |-> part]]
    IN  [st EXCEPT !.A = @ \o Flatten([k \in DOMAIN cc |-> tagged(cc[k])]),
                   !.raised = @ \/ \E k \in DOMAIN cc : one(cc[k]).raised]

\* "for c in resets_in_transition: clock_to_delay[c] = []", a reset that
\* forgets nothing
KeepDelays(clock_to_delay, resets_in_transition) ==
    [c \in DOMAIN clock_to_delay \cup Range(resets_in_transition) |->
        IF c \in DOMAIN clock_to_delay THEN clock_to_delay[c] ELSE <<>>]

\* "for c in resets_in_transition: clock_to_delay[c] = []"
ResetClocks(clock_to_delay, resets_in_transition) ==
    [c \in DOMAIN clock_to_delay \cup Range(resets_in_transition) |->
        IF c \in Range(resets_in_transition) THEN <<>>
        ELSE clock_to_delay[c]]

\* "for c in clocks: clock_to_delay[c].append(...)", delay_var_offset
\* left out of the index
NoOffset(clock_to_delay, clocks, seg, delay_var_offset) ==
    [c \in DOMAIN clock_to_delay |->
        IF c \in Range(clocks)
        THEN Append(clock_to_delay[c], seg + 1) ELSE clock_to_delay[c]]

\* "for c in clocks: clock_to_delay[c].append(i // 2 + 1 + delay_var_offset)"
AddDelays(clock_to_delay, clocks, seg, delay_var_offset) ==
    [c \in DOMAIN clock_to_delay |->
        IF c \in Range(clocks)
        THEN Append(clock_to_delay[c], seg + 1 + delay_var_offset)
        ELSE clock_to_delay[c]]

\* One round of the loop with the resets and updates of the transition
\* made before its guard is read
ResetBeforeGuard(T, path, st, seg, var_count, delay_var_offset, clocks, add_epsilon, validate_state) ==
    LET l == path[2 * seg + 1]
        t == path[2 * seg + 2]
        l2 == path[2 * seg + 3]
        s1 == LabelRows(Invariant(T, l), st, var_count, add_epsilon,
                        validate_state, seg, "source")
        s2 == [s1 EXCEPT
                 !.clock_to_delay =
                     ResetClocks(@, get_resets(Assignment(T, t))),
                 !.ctx = HandleUpdates(get_other_updates(Assignment(T, t)),
                                       @)]
        s3 == LabelRows(Guard(T, t), s2, var_count, add_epsilon,
                        validate_state, seg, "guard")
        s4 == LabelRows(Invariant(T, l2), s3, var_count, add_epsilon,
                        validate_state, seg, "target")
    IN  [s4 EXCEPT
           !.clock_to_delay = AddDelays(@, clocks, seg, delay_var_offset)]

\* One round of the loop "for i in range(0, len(path) - 1, 2)": seg = i // 2
Segment(T, path, st, seg, var_count, delay_var_offset, clocks, add_epsilon, validate_state) ==
    LET l == path[2 * seg + 1]
        t == path[2 * seg + 2]
        l2 == path[2 * seg + 3]
        \* source location, then the transition's guard
        s1 == LabelRows(Invariant(T, l), st, var_count, add_epsilon,
                        validate_state, seg, "source")
        s2 == LabelRows(Guard(T, t), s1, var_count, add_epsilon,
                        validate_state, seg, "guard")
        \* resets and updates
        resets_in_transition == get_resets(Assignment(T, t))
        updates_in_transition == get_other_updates(Assignment(T, t))
        s3 == [s2 EXCEPT
                 !.clock_to_delay = ResetClocks(@, resets_in_transition),
                 !.ctx = HandleUpdates(updates_in_transition, @)]
        \* target location
        s4 == LabelRows(Invariant(T, l2), s3, var_count, add_epsilon,
                        validate_state, seg, "target")
    \* add delays
    IN  [s4 EXCEPT
           !.clock_to_delay = AddDelays(@, clocks, seg, delay_var_offset)]

RECURSIVE Segments(_, _, _, _, _, _, _, _, _)
Segments(T, path, st, seg, var_count, delay_var_offset, clocks, add_epsilon, validate_state) ==
    IF seg >= Len(path) \div 2 THEN st
    ELSE Segments(T, path,
                  Segment(T, path, st, seg, var_count, delay_var_offset,
                          clocks, add_epsilon, validate_state),
                  seg + 1, var_count, delay_var_offset, clocks, add_epsilon,
                  validate_state)

\* The rows "-icv <= 0" and, for a clock named in icv_constants, the
\* negated row with b[1] = -icv_c.  B already holds b[0] by value when
\* b[0] is assigned icv_c, so the first row keeps 0.
IcvRows(clocks, icv_constants, var_count) ==
    LET a0(i) == [j \in 0..(var_count - 1) |-> IF j = i THEN -1 ELSE 0]
        rowsOf(i) ==
            <<[a |-> a0(i), b |-> 0, clocks |-> <<clocks[i + 1]>>,
               used |-> << <<i>> >>, operator |-> "<",
               strict |-> FALSE, seg |-> -1, part |-> "icv"]>>
            \o IF clocks[i + 1] \in DOMAIN icv_constants
               THEN <<[a |-> Negated(a0(i)),
                       b |-> -(icv_constants[clocks[i + 1]] * Scale),
                       clocks |-> <<clocks[i + 1]>>, used |-> << <<i>> >>,
                       operator |-> "<", strict |-> FALSE, seg |-> -1, part |-> "icv"]>>
               ELSE <<>>
    IN  Flatten([k \in 1..Len(clocks) |-> rowsOf(k - 1)])

\* The values the solver reports are its own choice among the solutions
SolutionValues(var_count) == [j \in 1..var_count |-> "solution_value"]

NoneIcv == [is_none |-> TRUE]

Icv(d) == [is_none |-> FALSE, dict |-> d]

\* path_realizable_with_initial_valuation(path, validate_path,
\* validate_state, add_epsilon, icv_constants), clocks left at None.
\* icv_constants is NoneIcv or Icv(d), d a function from clock names to
\* values.
\* ret is the returned tuple; solved tells whether an LP was built and
\* solved; A, var_count and clock_to_delay are the locals at the Solve call.
path_realizable_with_initial_valuation(T, path, validate_path, validate_state, add_epsilon, icv_constants) ==
    IF validate_path /\ ~path_exists(T, path)
    THEN [ret |-> <<FALSE, <<>>>>, solved |-> FALSE, raised |-> FALSE,
          A |-> <<>>, var_count |-> 0, clock_to_delay |-> <<>>]
    ELSE
    LET ctx == to_MutableContext(T.context)
        clocks == find_used_clocks(T, path)
        delay_var_count == Len(path) \div 2
        with_icv == ~icv_constants.is_none
        icv_var_count == Len(clocks)
        var_count == IF with_icv THEN delay_var_count + icv_var_count
                     ELSE delay_var_count
        delay_var_offset == IF with_icv THEN icv_var_count ELSE 0
        index(c) == CHOOSE i \in 0..(Len(clocks) - 1) : clocks[i + 1] = c
        st0 == [clock_to_delay |->
                   [c \in Range(clocks) |->
                       IF with_icv THEN <<index(c), delay_var_offset>>
                       ELSE <<0>>],
                ctx |-> ctx,
                A |-> IF with_icv
                      THEN IcvRows(clocks, icv_constants.dict, var_count)
                      ELSE <<>>,
                raised |-> FALSE]
        st == Segments(T, path, st0, 0, var_count, delay_var_offset, clocks,
                       add_epsilon, validate_state)
        status == Solve(st.A, var_count)
    IN  IF st.raised
        THEN [ret |-> <<>>, solved |-> FALSE, raised |-> TRUE,
              A |-> st.A, var_count |-> var_count,
              clock_to_delay |-> st.clock_to_delay]
        ELSE [ret |-> IF status = "OPTIMAL"
                      THEN <<TRUE, SolutionValues(var_count)>>
                      ELSE <<FALSE, <<>>>>,
              solved |-> TRUE, raised |-> FALSE,
              A |-> st.A, var_count |-> var_count,
              clock_to_delay |-> st.clock_to_delay]

\* path_realizable: the same with icv_constants = None
path_realizable(T, path, validate_path, validate_state, add_epsilon) ==
    path_realizable_with_initial_valuation(T, path, validate_path,
                                           validate_state, add_epsilon,
                                           NoneIcv)

(***************************************************************************)
(* The template.                                                           *)
(***************************************************************************)
\* Locations id0, id1, id2 and three transitions, in file order:
\*   0: id0 -> id1,  1: id1 -> id2,  2: id2 -> id0
Locations == {0, 1, 2}

Transitions == {0, 1, 2}

ParsedSource == [t \in Transitions |-> t]

ParsedTarget == [t \in Transitions |-> (t + 1) % 3]

\* The constraint strings handed to the parser, tokenized
ConstraintStrings ==
    {<< <<"x">>, ">=", <<"11">> >>,
     << <<"x">>, "==", <<"3">> >>,
     << <<"x">>, ">", <<"10">> >>}

Expressions ==
    {parse_expr(s[1], s[2], s[3], ParsedContext) : s \in ConstraintStrings}

Parsed(lhs, op, rhs) == parse_expr(<<lhs>>, op, <<rhs>>, ParsedContext)

\* The templates Template.from_element builds from the files of the model:
\* id0 --x = 0--> id1 --y = 0--> id2 (x - y <= 3);
\* the scenario  id0 (x <= 10) --x <= 10--> id1 --x >= 5, x = 0--> id2;
\* and  id0 --n = 5--> id1 (x >= 5) --x <= n && n >= 5--> id2.
ParsedTemplates ==
    LET bare == [context |-> ParsedContext,
                 source |-> ParsedSource, target |-> ParsedTarget,
                 initial_location |-> 0,
                 assignment |-> [t \in Transitions |-> <<>>],
                 invariant |-> [l \in Locations |-> <<>>],
                 guard |-> [t \in Transitions |-> <<>>]]
        reset(c) == UpdateExpression(c, "=", "0", ParsedContext)
    IN  {[bare EXCEPT !.assignment[0] = <<reset("x")>>,
                      !.assignment[1] = <<reset("y")>>,
                      !.invariant[2] =
                         <<parse_expr(<<"x", "y">>, "<=", <<"3">>,
                                      ParsedContext)>>],
         [bare EXCEPT !.invariant[0] = <<Parsed("x", "<=", "10")>>,
                      !.guard[0] = <<Parsed("x", "<=", "10")>>,
                      !.guard[1] = <<Parsed("x", ">=", "5")>>,
                      !.assignment[1] = <<reset("x")>>],
         [bare EXCEPT !.assignment[0] =
                         <<UpdateExpression("n", "=", "5", ParsedContext)>>,
                      !.invariant[1] = <<Parsed("x", ">=", "5")>>,
                      !.guard[1] = <<Parsed("x", "<=", "n"),
                                     Parsed("n", ">=", "5")>>]}

NumLabels(T) ==
    Cardinality({l \in Locations : T.invariant[l] # <<>>})
    + Cardinality({t \in Transitions : T.guard[t] # <<>>})

\* template: the Template object.  last: the analysis call made on it and
\* what the call built and returned; [call |-> "none"] before any call.
VARIABLES template, last

vars == <<template, last>>

Init ==
    /\ template \in ParsedTemplates
    /\ last = [call |-> "none"]

\* An analysis call leaves the template as it is, so every operation is
\* explored from the states without a call result only.
Idle == last.call = "none"

\* A label is created on an element that has none only while fewer than
\* MaxLabels labels exist; replacing a label is always possible.
MayLabel(current) == current # <<>> \/ NumLabels(template) < MaxLabels

\* Location.create_constraint_label(exp, ctx)
LocationCreateConstraintLabel(l, exp) ==
    /\ Idle
    /\ MayLabel(template.invariant[l])
    /\ template' = [template EXCEPT !.invariant[l] = <<exp>>]
    /\ UNCHANGED last

\* Location.remove_constraint_label()
LocationRemoveConstraintLabel(l) ==
    /\ Idle
    /\ template' = [template EXCEPT !.invariant[l] = <<>>]
    /\ UNCHANGED last

\* Transition.create_constraint_label(exp, ctx)
TransitionCreateConstraintLabel(t, exp) ==
    /\ Idle
    /\ MayLabel(template.guard[t])
    /\ template' = [template EXCEPT !.guard[t] = <<exp>>]
    /\ UNCHANGED last

\* Transition.remove_constraint_label()
TransitionRemoveConstraintLabel(t) ==
    /\ Idle
    /\ template' = [template EXCEPT !.guard[t] = <<>>]
    /\ UNCHANGED last

(***************************************************************************)
(* The paths and arguments the analysis is called with.                    *)
(***************************************************************************)
\* convert_to_path on lists that follow the graph: the paths of exactly k
\* transitions
RECURSIVE Walks(_, _)
Walks(T, k) ==
    IF k = 0 THEN {<<l>> : l \in Locations}
    ELSE {wt[1] \o <<wt[2], T.target[wt[2]]>> :
            wt \in {p \in Walks(T, k - 1) \X Transitions :
                       T.source[p[2]] = p[1][Len(p[1])]}}

\* convert_to_path on lists that do not: the last location of a one-step
\* walk replaced by the location after it in the file
Broken(T, k) ==
    IF k # 1 THEN {}
    ELSE {[w EXCEPT ![3] = (w[3] + 1) % 3] : w \in Walks(T, 1)}

InputPaths(T) ==
    UNION {Walks(T, k) \cup Broken(T, k) : k \in 0..MaxSegments}

\* icv_constants: {}, {"x": 0}, {"x": 3}
IcvInputs ==
    {Icv(<<>>), Icv([c \in {"x"} |-> 0]), Icv([c \in {"x"} |-> 3])}

\* <<validate_path, validate_state, add_epsilon>> of the calls of
\* path_realizable: the defaults, add_epsilon=True, (path, True) and
\* check_dp's (p, True, True)
FlagInputs ==
    {<<FALSE, FALSE, FALSE>>, <<FALSE, FALSE, TRUE>>,
     <<TRUE, FALSE, FALSE>>, <<TRUE, TRUE, FALSE>>}

Called(name, path, validate_path, validate_state, add_epsilon, icv) ==
    [call |-> name, path |-> path, validate_path |-> validate_path,
     validate_state |-> validate_state, add_epsilon |-> add_epsilon,
     icv_constants |-> icv,
     result |-> path_realizable_with_initial_valuation(
                   template, path, validate_path, validate_state,
                   add_epsilon, icv)]

\* path_realizable(path, validate_path, validate_state, add_epsilon)
PathRealizable(path, validate_path, validate_state, add_epsilon) ==
    /\ Idle
    /\ last' = Called("path_realizable", path, validate_path, validate_state,
                      add_epsilon, NoneIcv)
    /\ UNCHANGED template

\* path_realizable_with_initial_valuation(path, validate_path,
\*                                        icv_constants=icv)
PathRealizableWithInitialValuation(path, validate_path, icv) ==
    /\ Idle
    /\ last' = Called("path_realizable_with_initial_valuation", path,
                      validate_path, FALSE, FALSE, icv)
    /\ UNCHANGED template

(***************************************************************************)
(* find_all_semi_realizable_paths.  The table DP[i][j][l] is the function  *)
(* DP[<<i, j, l>>]; a cell is the list of its paths in append order.       *)
(***************************************************************************)
\* g.nodes, in insertion order
Nodes == SortedSeq(Locations)

\* g[i].items() with the edges of each neighbour: the transitions that
\* leave i, neighbours in order of their first edge, edges by key
EdgesFrom(T, i) ==
    LET out == SortedSeq({t \in DOMAIN T.source : T.source[t] = i})
        first(j) == CHOOSE n \in DOMAIN out :
                       /\ T.target[out[n]] = j
                       /\ \A m \in 1..(n - 1) : T.target[out[m]] # j
        fresh == SelectSeq([n \in DOMAIN out |-> n],
                           LAMBDA n : first(T.target[out[n]]) = n)
    IN  Flatten([n \in DOMAIN fresh |->
                   SelectSeq(out, LAMBDA t : T.target[t] = T.target[out[fresh[n]]])])

\* bool(x) of a returned tuple: a tuple is true unless it is empty
Truthy(tuple) == Len(tuple) # 0

\* the condition of the two "if path_realizable_with_initial_valuation(
\* path, icv_constants={})" statements
KeepCandidate(T, path) ==
    Truthy(path_realizable_with_initial_valuation(
              T, path, FALSE, FALSE, FALSE, Icv(<<>>)).ret)

\* Create DP table, "DP[i][i][0].append([i_obj])" left out
NoPaths(max_length) ==
    [c \in (Locations \X Locations \X (0..max_length)) |-> <<>>]

\* Create DP table, with the paths of length 0
EmptyTable(max_length) ==
    [c \in (Locations \X Locations \X (0..max_length)) |->
        IF c[1] = c[2] /\ c[3] = 0 THEN << <<c[1]>> >> ELSE <<>>]

\* Add paths of length 1
RECURSIVE AddEdgePaths(_, _, _)
AddEdgePaths(T, DP, edges) ==
    IF edges = <<>> THEN DP
    ELSE LET t == Head(edges)
             path == <<T.source[t], t, T.target[t]>>
         IN  AddEdgePaths(T,
                          IF KeepCandidate(T, path)
                          THEN [DP EXCEPT ![<<T.source[t], T.target[t], 1>>] =
                                             Append(@, path)]
                          ELSE DP,
                          Tail(edges))

AddEdges(T, DP) ==
    AddEdgePaths(T, DP,
                 Flatten([n \in DOMAIN Nodes |-> EdgesFrom(T, Nodes[n])]))

\* product(nodes, repeat=3), in its order
Triples ==
    Flatten([a \in DOMAIN Nodes |->
        Flatten([b \in DOMAIN Nodes |->
            [c \in DOMAIN Nodes |-> <<Nodes[a], Nodes[b], Nodes[c]>>]])])

\* The candidates p3 = p1[:-1] + p2 of length l, in loop order: split
\* point p, triple (i, j, k), p1 in DP[i][j][p], p2 in DP[j][k][l - p]
Candidates(DP, l) ==
    LET forTriple(p, tr) ==
            LET P1 == DP[<<tr[1], tr[2], p>>]
                P2 == DP[<<tr[2], tr[3], l - p>>]
            IN  Flatten([a \in DOMAIN P1 |->
                    [b \in DOMAIN P2 |->
                        SubSeq(P1[a], 1, Len(P1[a]) - 1) \o P2[b]]])
    IN  Flatten([p \in 1..(l - 1) |->
            Flatten([n \in DOMAIN Triples |-> forTriple(p, Triples[n])])])

\* one level "for l in range(2, max_length + 1)"
\* the body of the innermost loop without "if p3 in DP[i][k][l]: continue"
AddAgain(T, DP, l, p3) ==
    IF KeepCandidate(T, p3)
    THEN [DP EXCEPT ![<<p3[1], p3[Len(p3)], l>>] = Append(@, p3)]
    ELSE DP

\* the body of the innermost loop: skip p3 when the cell holds it already,
\* else check it and append it
AddCandidate(T, DP, l, p3) ==
    IF p3 \in Range(DP[<<p3[1], p3[Len(p3)], l>>]) THEN DP
    ELSE IF KeepCandidate(T, p3)
    THEN [DP EXCEPT ![<<p3[1], p3[Len(p3)], l>>] = Append(@, p3)]
    ELSE DP

RECURSIVE AddCandidates(_, _, _, _)
AddCandidates(T, DP, l, candidates) ==
    IF candidates = <<>> THEN DP
    ELSE AddCandidates(T, AddCandidate(T, DP, l, Head(candidates)), l,
                       Tail(candidates))

AddLength(T, DP, l) == AddCandidates(T, DP, l, Candidates(DP, l))

RECURSIVE AddLengths(_, _, _, _)
AddLengths(T, DP, l, max_length) ==
    IF l > max_length THEN DP
    ELSE AddLengths(T, AddLength(T, DP, l), l + 1, max_length)

find_all_semi_realizable_paths(T, max_length) ==
    AddLengths(T, AddEdges(T, EmptyTable(max_length)), 2, max_length)

\* find_all_semi_realizable_paths(template, max_length)
FindAllSemiRealizablePaths(max_length) ==
    /\ Idle
    /\ last' = [call |-> "find_all_semi_realizable_paths",
                max_length |-> max_length,
                DP |-> find_all_semi_realizable_paths(template, max_length)]
    /\ UNCHANGED template

Next ==
    \/ \E l \in Locations, exp \in Expressions :
          LocationCreateConstraintLabel(l, exp)
    \/ \E l \in Locations : LocationRemoveConstraintLabel(l)
    \/ \E t \in Transitions, exp \in Expressions :
          TransitionCreateConstraintLabel(t, exp)
    \/ \E t \in Transitions : TransitionRemoveConstraintLabel(t)
    \/ \E path \in InputPaths(template), flags \in FlagInputs :
          PathRealizable(path, flags[1], flags[2], flags[3])
    \/ \E path \in InputPaths(template), icv \in IcvInputs :
          PathRealizableWithInitialValuation(path, icv = Icv(<<>>), icv)
    \/ \E max_length \in 1..MaxLength :
          FindAllSemiRealizablePaths(max_length)

Spec == Init /\ [][Next]_vars

(***************************************************************************)
(* Path construction and the functions on the graph (path_analysis.py).    *)
(***************************************************************************)
\* graph._named_locations: the named locations by name
NamedLocations == [name \in {"l0", "l1", "l2"} |->
                     CASE name = "l0" -> 0 [] name = "l1" -> 1
                       [] name = "l2" -> 2]

\* convert_to_path taking the transition after the one asked for
NextTransition(T, lst) ==
    [i \in DOMAIN lst |->
        IF (i - 1) % 2 = 1
        THEN (lst[i] + 1) % Cardinality(DOMAIN T.source)
        ELSE NamedLocations[lst[i]]]

\* convert_to_path: element i (0-based) is a transition index when i is
\* odd and a location name otherwise
convert_to_path(T, lst) ==
    [i \in DOMAIN lst |->
        IF (i - 1) % 2 = 1 THEN lst[i] ELSE NamedLocations[lst[i]]]

\* the lists of existing names and indices with k transitions
RECURSIVE Lists(_, _)
Lists(T, k) ==
    IF k = 0 THEN {<<name>> : name \in DOMAIN NamedLocations}
    ELSE {l \o <<t, name>> :
            l \in Lists(T, k - 1), t \in DOMAIN T.source,
            name \in DOMAIN NamedLocations}

ListInputs(T) == UNION {Lists(T, k) : k \in 0..MaxSegments}

\* g[i][j].values(), a transition that is not the first one left out
FirstEdgeOnly(T, i, j) ==
    LET all == SortedSeq({t \in DOMAIN T.source :
                             T.source[t] = i /\ T.target[t] = j})
    IN  IF all = <<>> THEN <<>> ELSE <<all[1]>>

\* g[i][j].values(): the transitions from i to j by key; none when j is
\* not a neighbour of i (the KeyError that concatenate_paths catches)
ParallelEdges(T, i, j) ==
    SortedSeq({t \in DOMAIN T.source : T.source[t] = i /\ T.target[t] = j})

\* concatenate_paths: res, and p1 and p2 as the call leaves them
concatenate_paths(T, p1, p2) ==
    LET ts == ParallelEdges(T, p1[Len(p1)], p2[1])
    IN  [res |-> [k \in DOMAIN ts |-> p1 \o <<ts[k]>> \o p2],
         raised |-> FALSE, p1 |-> p1, p2 |-> p2]

\* An element of the queue of find_reachable_locations: a node, or a key
\* of a node's attribute dict
QueuedNode(n) == [node |-> n]

QueuedKey(k) == [key |-> k]

\* "for succ in g.nodes[n]": g.nodes[n] is the attribute dict of n, set by
\* add_node(..., obj=loc) and by g.nodes[node]["tag"] = False
NodeAttributes == <<QueuedKey("obj"), QueuedKey("tag")>>

\* check_dp for a target that is a node of the table: any stored path
\* makes "if path_realizable(p, True, True)" true
check_dp(T, init, target, table) ==
    \E c \in DOMAIN table :
        /\ c[1] = init /\ c[2] = target
        /\ \E p \in Range(table[c]) :
              Truthy(path_realizable(T, p, TRUE, TRUE, FALSE).ret)

\* the loop "while q" of find_reachable_locations; for an element that is
\* no node, table[init][n] in check_dp raises KeyError
RECURSIVE ReachLoop(_, _, _, _, _)
ReachLoop(T, table, init, tag, q) ==
    IF q = <<>> THEN [raised |-> FALSE, tag |-> tag]
    ELSE IF "node" \notin DOMAIN Head(q) THEN [raised |-> TRUE, tag |-> tag]
    ELSE IF check_dp(T, init, Head(q).node, table)
    THEN ReachLoop(T, table, init, [tag EXCEPT ![Head(q).node] = TRUE],
                   Tail(q) \o NodeAttributes)
    ELSE ReachLoop(T, table, init, tag, Tail(q))

\* find_reachable_locations: the tags it leaves, and whether it raised
find_reachable_locations(T, table) ==
    ReachLoop(T, table, T.initial_location, [n \in Locations |-> FALSE],
              <<QueuedNode(T.initial_location)>>)

\* graph.nodes.data(attribute): None, which is false, for an attribute
\* the nodes do not have
NodeData(tag, attribute) ==
    [n \in Locations |-> IF attribute = "tag" THEN tag[n] ELSE FALSE]

\* reachability_analysis, from the outcome of its call of
\* find_reachable_locations
reachability_analysis(marked) ==
    IF marked.raised THEN [raised |-> TRUE, res |-> {}]
    ELSE [raised |-> FALSE,
          res |-> {n \in Locations : NodeData(marked.tag, "tagged")[n]}]

\* gp[n]: the neighbours of n in the reversed graph
Predecessors(T, n) ==
    SortedSeq({T.source[t] : t \in {u \in DOMAIN T.source : T.target[u] = n}})

\* The outer loop of furthest_reachable.  Every tagged node of q_act is
\* added to res and, once one is found, nothing is expanded any more; with
\* no tagged node the predecessors become the next q_act.  There is no
\* visited set: a round past the number of nodes means a cycle is being
\* walked, and the loop never ends.
RECURSIVE BackwardRounds(_, _, _, _)
BackwardRounds(T, tag, q_act, round) ==
    LET tagged == {n \in Range(q_act) : tag[n]}
    IN  IF q_act = <<>> \/ tagged # {}
        THEN [status |-> "returned", res |-> tagged]
        ELSE IF round > Cardinality(Locations)
        THEN [status |-> "diverges", res |-> {}]
        ELSE BackwardRounds(T, tag,
                            Flatten([k \in DOMAIN q_act |->
                                        Predecessors(T, q_act[k])]),
                            round + 1)

\* furthest_reachable, from the outcome of its call of
\* find_reachable_locations.  template.graph.reverse() builds the reversed
\* graph with the graph's class called without arguments, and TAGraph
\* takes the template as an argument of its constructor: reversed tells
\* whether the installed networkx gets a reversed graph built or the call
\* raises TypeError.
furthest_reachable(T, target_set, marked, reversed) ==
    IF marked.raised \/ ~reversed
    THEN [status |-> "raised", res |-> {}, tag |-> marked.tag]
    ELSE [status |-> BackwardRounds(T, marked.tag,
                                    SortedSeq(target_set), 0).status,
          res |-> BackwardRounds(T, marked.tag,
                                 SortedSeq(target_set), 0).res,
          tag |-> marked.tag]

\* The files of the graph functions: the templates with one more
\* transition id0 --> id1, after the others in the file
GraphTemplates ==
    {[T EXCEPT !.source = [t \in 0..3 |-> IF t = 3 THEN 0 ELSE T.source[t]],
               !.target = [t \in 0..3 |-> IF t = 3 THEN 1 ELSE T.target[t]],
               !.guard = [t \in 0..3 |-> IF t = 3 THEN <<>> ELSE T.guard[t]],
               !.assignment = [t \in 0..3 |->
                                 IF t = 3 THEN <<>> ELSE T.assignment[t]]] :
        T \in ParsedTemplates}

\* The tables the graph functions can be handed: the one that
\* find_all_semi_realizable_paths has just returned, or, before any call,
\* a table of cells without any path
Tables ==
    IF last.call = "find_all_semi_realizable_paths" THEN {last.DP}
    ELSE IF last.call = "none"
    THEN {[c \in (Locations \X Locations \X {0}) |-> <<>>]}
    ELSE {}

InitGraph ==
    /\ template \in GraphTemplates
    /\ last = [call |-> "none"]

ConvertToPath(lst) ==
    /\ Idle
    /\ last' = [call |-> "convert_to_path", lst |-> lst,
                path |-> convert_to_path(template, lst)]
    /\ UNCHANGED template

PathExists(path) ==
    /\ Idle
    /\ last' = [call |-> "path_exists", path |-> path,
                result |-> path_exists(template, path)]
    /\ UNCHANGED template

ConcatenatePaths(p1, p2) ==
    /\ Idle
    /\ last' = [call |-> "concatenate_paths", p1 |-> p1, p2 |-> p2,
                result |-> concatenate_paths(template, p1, p2)]
    /\ UNCHANGED template

FindReachableLocations(table) ==
    /\ last' = [call |-> "find_reachable_locations", table |-> table,
                result |-> find_reachable_locations(template, table)]
    /\ UNCHANGED template

ReachabilityAnalysis(table) ==
    /\ \E marked \in {find_reachable_locations(template, table)} :
          last' = [call |-> "reachability_analysis", table |-> table,
                   marked |-> marked,
                   result |-> reachability_analysis(marked)]
    /\ UNCHANGED template

FurthestReachable(target_set, table, reversed) ==
    /\ \E marked \in {find_reachable_locations(template, table)} :
          last' = [call |-> "furthest_reachable",
                   target_set |-> target_set, table |-> table,
                   result |-> furthest_reachable(template, target_set,
                                                 marked, reversed)]
    /\ UNCHANGED template

\* the paths handed to path_exists and concatenate_paths
PathInputs(T) == {convert_to_path(T, lst) : lst \in ListInputs(T)}

NextGraph ==
    \/ Idle /\ \E lst \in ListInputs(template) : ConvertToPath(lst)
    \/ Idle /\ \E path \in PathInputs(template) : PathExists(path)
    \/ Idle /\ \E p1, p2 \in {p \in PathInputs(template) :
                                 Len(p) <= 3 /\ path_exists(template, p)} :
                  ConcatenatePaths(p1, p2)
    \/ \E max_length \in 1..MaxLength :
          FindAllSemiRealizablePaths(max_length)
    \/ \E table \in Tables : FindReachableLocations(table)
    \/ \E table \in Tables : ReachabilityAnalysis(table)
    \/ \E target_set \in SUBSET Locations, table \in Tables :
          \E reversed \in BOOLEAN :
             FurthestReachable(target_set, table, reversed)

SpecGraph == InitGraph /\ [][NextGraph]_vars

(***************************************************************************)
(* Context objects (classes/context.py): the set of clocks and the two     *)
(* dicts of a context are objects of a heap, and a context holds           *)
(* references to them.                                                     *)
(***************************************************************************)
MaxSets == 2

\* _parse_line: the (identifier, value) pairs of a line; a declaration
\* without initialiser gets "0"
parse_line(decls) ==
    [k \in DOMAIN decls |->
        <<decls[k][1],
          IntOf[IF Len(decls[k]) = 2 THEN decls[k][2] ELSE "0"]>>]

\* "for i, v in pairs: d[i] = v"
RECURSIVE Assign(_, _)
Assign(d, pairs) ==
    IF pairs = <<>> THEN d
    ELSE Assign([i \in DOMAIN d \cup {pairs[1][1]} |->
                    IF i = pairs[1][1] THEN pairs[1][2] ELSE d[i]],
                Tail(pairs))

\* one round of the loop of parse_context: the line goes to _parse_clocks,
\* _parse_constants or _parse_variables by its prefix, or is skipped
parse_context_line(ctx, l) ==
    IF l.prefix = "clock"
    THEN [ctx EXCEPT !.clocks = @ \cup {l.decls[k][1] : k \in DOMAIN l.decls}]
    ELSE IF l.prefix = "const int"
    THEN [ctx EXCEPT !.constants = Assign(@, parse_line(l.decls))]
    ELSE IF l.prefix = "int"
    THEN [ctx EXCEPT !.initial_state = Assign(@, parse_line(l.decls))]
    ELSE ctx

RECURSIVE ParseLines(_, _)
ParseLines(ctx, lines) ==
    IF lines = <<>> THEN ctx
    ELSE ParseLines(parse_context_line(ctx, Head(lines)), Tail(lines))

\* Context.parse_context, from Context.empty()
parse_context(declaration) ==
    ParseLines([clocks |-> {}, constants |-> <<>>, initial_state |-> <<>>],
               declaration)

\* A line of a declaration: its prefix and its comma separated parts up
\* to the semicolon, each an identifier or an identifier and a value
Line(prefix, decls) == [prefix |-> prefix, decls |-> decls]

\* The declarations parsed:
\*   clock x, y; / const int N = 10; / int n = 0;
\*   clock x; / const int x = 5;
\*   clock x; / int x;
\*   bool b; / int n = 3, n = 5;
Declarations ==
    {<<Line("clock", << <<"x">>, <<"y">> >>),
       Line("const int", << <<"N", "10">> >>),
       Line("int", << <<"n", "0">> >>)>>,
     <<Line("clock", << <<"x">> >>), Line("const int", << <<"x", "5">> >>)>>,
     <<Line("clock", << <<"x">> >>), Line("int", << <<"x">> >>)>>,
     <<Line("bool", << <<"b">> >>),
       Line("int", << <<"n", "3">>, <<"n", "5">> >>)>>}

\* The arguments the constructor is called with:
\*   Context({"x", "y"}, {"N": 10}, {"n": 0}),  Context({"x"}, {"x": 5}, {})
ConstructorInputs ==
    {[clocks |-> {"x", "y"}, constants |-> [i \in {"N"} |-> 10],
      initial_state |-> [i \in {"n"} |-> 0]],
     [clocks |-> {"x"}, constants |-> [i \in {"x"} |-> 5],
      initial_state |-> <<>>]}

\* the identifiers get_val and set_val are called with
Identifiers == {"x", "y", "N", "n", "5"}

\* the objects a context refers to
Deref(heap, c) ==
    [clocks |-> heap[c.clocks], constants |-> heap[c.constants],
     initial_state |-> heap[c.initial_state]]

\* Context.__init__: the three arguments are stored as they are
NewContext(clocks, constants, initial_state) ==
    [clocks |-> clocks, constants |-> constants,
     initial_state |-> initial_state]

\* the object itself instead of a copy
SameObject(heap, ref) == [heap |-> heap, ref |-> ref]

\* deepcopy(object): a new object with the same content
deepcopy(heap, ref) ==
    [heap |-> Append(heap, heap[ref]), ref |-> Len(heap) + 1]

\* Context.to_MutableContext: the heap after the three copies, and the
\* MutableContext made of them
Context_to_MutableContext(heap, c) ==
    LET clocks == deepcopy(heap, c.clocks)
        const == deepcopy(clocks.heap, c.constants)
        init == deepcopy(const.heap, c.initial_state)
    IN  [heap |-> init.heap,
         mc |-> NewContext(clocks.ref, const.ref, init.ref)]

\* Context.get_val with its outcome: the value, or the KeyError of
\* self.initial_state[identifier]
Context_get_val(ctx, identifier) ==
    IF is_literal(identifier) \/ is_constant(ctx, identifier)
          \/ is_variable(ctx, identifier)
    THEN [raised |-> FALSE, value |-> get_val(ctx, identifier)]
    ELSE [raised |-> TRUE, value |-> 0]

\* the updates handle_update is called with
UpdateInputs ==
    {UpdateExpression("n", "=", "5", ParsedContext),
     UpdateExpression("n", "+=", "N", ParsedContext),
     UpdateExpression("n", "-=", "3", ParsedContext)}

InitContext ==
    /\ template \in ParsedTemplates
    /\ last = [call |-> "none"]

\* ctx = Context(clocks, constants, initial_state)
Constructor(args) ==
    /\ Idle
    /\ last' = [call |-> "Context",
                heap |-> <<args.clocks, args.constants, args.initial_state>>,
                ctx |-> NewContext(1, 2, 3),
                args |-> args, sets |-> 0]
    /\ UNCHANGED template

\* ctx = Context.parse_context(declaration)
ParseContext(declaration) ==
    /\ Idle
    /\ last' = [call |-> "parse_context",
                heap |-> <<parse_context(declaration).clocks,
                           parse_context(declaration).constants,
                           parse_context(declaration).initial_state>>,
                ctx |-> NewContext(1, 2, 3),
                args |-> parse_context(declaration), sets |-> 0]
    /\ UNCHANGED template

\* mc = ctx.to_MutableContext()
ToMutableContext ==
    /\ last.call \in {"Context", "parse_context"}
    /\ last' = [call |-> "to_MutableContext",
                heap |-> Context_to_MutableContext(last.heap, last.ctx).heap,
                ctx |-> last.ctx,
                mc |-> Context_to_MutableContext(last.heap, last.ctx).mc,
                args |-> last.args, sets |-> 0]
    /\ UNCHANGED template

HasMutable == last.call \in {"to_MutableContext", "set_val", "handle_update"}

\* mc.set_val(identifier, val)
SetVal(identifier, val) ==
    /\ HasMutable
    /\ last.sets < MaxSets
    /\ last' = [last EXCEPT
                  !.call = "set_val",
                  !.heap[last.mc.initial_state] =
                      set_val(Deref(last.heap, last.mc), identifier,
                              val).initial_state,
                  !.sets = @ + 1]
    /\ UNCHANGED template

\* u.handle_update(mc), for an update whose two sides mc.get_val finds
HandleUpdate(u) ==
    /\ HasMutable
    /\ last.sets < MaxSets
    /\ ~Context_get_val(Deref(last.heap, last.mc), u.lhs).raised
    /\ ~Context_get_val(Deref(last.heap, last.mc), u.rhs).raised
    /\ last' = [last EXCEPT
                  !.call = "handle_update",
                  !.heap[last.mc.initial_state] =
                      handle_update(u, Deref(last.heap,
                                             last.mc)).initial_state,
                  !.sets = @ + 1]
    /\ UNCHANGED template

\* ctx.get_val(identifier), on the context first built
GetVal(identifier) ==
    /\ last.call \in {"Context", "parse_context"} \/ HasMutable
    /\ last' = [call |-> "get_val", heap |-> last.heap, ctx |-> last.ctx,
                args |-> last.args, sets |-> last.sets,
                copied |-> HasMutable,
                identifier |-> identifier,
                result |-> Context_get_val(Deref(last.heap, last.ctx),
                                           identifier)]
    /\ UNCHANGED template

NextContext ==
    \/ \E args \in ConstructorInputs : Constructor(args)
    \/ \E declaration \in Declarations : ParseContext(declaration)
    \/ ToMutableContext
    \/ \E identifier \in {"n", "x"}, val \in {7} : SetVal(identifier, val)
    \/ \E u \in UpdateInputs : HandleUpdate(u)
    \/ \E identifier \in Identifiers : GetVal(identifier)

SpecContext == InitContext /\ [][NextContext]_vars

(***************************************************************************)
(* Serialisation of the labels, and templates whose constraints have       *)
(* variable thresholds and thresholds on the left-hand side.               *)
(***************************************************************************)
MaxToString == 2

\* Expression.to_string joins lhs, op and rhs;
\* ClockConstraintExpression.to_string first runs
\* "if self.equality: self.operator += '='".  text is the string, by its
\* tokens, and exp the expression as the call leaves it.
to_string(exp) ==
    [text |-> <<exp.lhs, exp.op, exp.rhs>>,
     exp |-> IF isinstance(exp, "ClockConstraintExpression") /\ exp.equality
             THEN [exp EXCEPT !.operator = @ \o "="]
             ELSE exp]

\* ConstraintLabel.to_element: join_expressions calls to_string on every
\* constraint of the label; the constraints as the call leaves them
to_element(constraints) ==
    [k \in DOMAIN constraints |-> to_string(constraints[k]).exp]

\* Template.to_element: every location and every transition is converted,
\* with its invariant or guard
Template_to_element(T) ==
    [T EXCEPT !.invariant = [l \in DOMAIN T.invariant |->
                                to_element(T.invariant[l])],
              !.guard = [t \in DOMAIN T.guard |-> to_element(T.guard[t])]]

\* the clock constraints of the labels of a template
TemplateClockConstraints(T) ==
    {c \in UNION ({Range(T.invariant[l]) : l \in DOMAIN T.invariant}
                     \cup {Range(T.guard[t]) : t \in DOMAIN T.guard}) :
        isinstance(c, "ClockConstraintExpression")}

\* The templates of the files with variable thresholds and with
\* thresholds on the left:
\*   id0 --x >= n, n = 5, n += 3--> id1 (x <= n)
\*       --x >= n, n -= 3, x = 0--> id2 (x <= n);
\*   id0 (x <= 5) --10 >= x, y = 0--> id1 --N > y--> id2 (3 >= x - y)
LabelTemplates ==
    LET bare == [context |-> ParsedContext,
                 source |-> ParsedSource, target |-> ParsedTarget,
                 initial_location |-> 0,
                 assignment |-> [t \in Transitions |-> <<>>],
                 invariant |-> [l \in Locations |-> <<>>],
                 guard |-> [t \in Transitions |-> <<>>]]
        update(v, op, rhs) == UpdateExpression(v, op, rhs, ParsedContext)
    IN  ParsedTemplates \cup
        {[bare EXCEPT !.guard[0] = <<Parsed("x", ">=", "n")>>,
                      !.assignment[0] = <<update("n", "=", "5"),
                                          update("n", "+=", "3")>>,
                      !.invariant[1] = <<Parsed("x", "<=", "n")>>,
                      !.guard[1] = <<Parsed("x", ">=", "n")>>,
                      !.assignment[1] = <<update("n", "-=", "3"),
                                          update("x", "=", "0")>>,
                      !.invariant[2] = <<Parsed("x", "<=", "n")>>],
         [bare EXCEPT !.invariant[0] = <<Parsed("x", "<=", "5")>>,
                      !.guard[0] = <<Parsed("10", ">=", "x")>>,
                      !.assignment[0] = <<update("y", "=", "0")>>,
                      !.guard[1] = <<Parsed("N", ">", "y")>>,
                      !.invariant[2] =
                         <<parse_expr(<<"3">>, ">=", <<"x", "y">>,
                                      ParsedContext)>>]}

InitLabels ==
    /\ template \in LabelTemplates
    /\ last = [call |-> "none"]

\* template.to_element(), as to_file makes it
ToElement ==
    /\ Idle
    /\ \A c \in TemplateClockConstraints(template) :
          Len(c.operator) <= MaxToString
    /\ template' = Template_to_element(template)
    /\ UNCHANGED last

NextLabels ==
    \/ ToElement
    \/ Idle /\ \E path \in InputPaths(template), flags \in FlagInputs :
                  PathRealizable(path, flags[1], flags[2], flags[3])
    \/ Idle /\ \E path \in InputPaths(template), icv \in IcvInputs :
                  PathRealizableWithInitialValuation(path, icv = Icv(<<>>),
                                                     icv)

SpecLabels == InitLabels /\ [][NextLabels]_vars

(***************************************************************************)
(* The constraint cache (classes/constraint_patcher.py, classes/nta.py).   *)
(* Lines and label texts are strings; positions in a string and in the     *)
(* list of lines count from 0 as in the code.                              *)
(***************************************************************************)
MaxPatches == 2

\* str.find(sub, start): the first position from start on where sub
\* begins, -1 when there is none (index raises ValueError then)
RECURSIVE str_find(_, _, _)
str_find(s, sub, start) ==
    IF start + Len(sub) > Len(s) THEN -1
    ELSE IF SubSeq(s, start + 1, start + Len(sub)) = sub THEN start
    ELSE str_find(s, sub, start + 1)

\* str.replace(old, new): every occurrence, from the left
RECURSIVE str_replace(_, _, _)
str_replace(s, old, new) ==
    IF str_find(s, old, 0) = -1 THEN s
    ELSE SubSeq(s, 1, str_find(s, old, 0)) \o new
            \o str_replace(SubSeq(s, str_find(s, old, 0) + Len(old) + 1,
                                  Len(s)),
                           old, new)

\* str.split(sep)
RECURSIVE str_split(_, _)
str_split(s, sep) ==
    IF str_find(s, sep, 0) = -1 THEN <<s>>
    ELSE <<SubSeq(s, 1, str_find(s, sep, 0))>>
            \o str_split(SubSeq(s, str_find(s, sep, 0) + Len(sep) + 1,
                                Len(s)),
                         sep)

\* sep.join(parts)
RECURSIVE str_join(_, _)
str_join(sep, parts) ==
    IF parts = <<>> THEN ""
    ELSE IF Len(parts) = 1 THEN parts[1]
    ELSE parts[1] \o sep \o str_join(sep, Tail(parts))

\* str.strip() of a line: the tabs and blanks in front of it and the
\* newline after it
RECURSIVE str_strip(_)
str_strip(s) ==
    IF s = "" THEN s
    ELSE IF SubSeq(s, 1, 1) \in {" ", "\t", "\n"}
    THEN str_strip(SubSeq(s, 2, Len(s)))
    ELSE IF SubSeq(s, Len(s), Len(s)) \in {" ", "\t", "\n"}
    THEN str_strip(SubSeq(s, 1, Len(s) - 1))
    ELSE s

startswith(s, prefix) ==
    Len(prefix) <= Len(s) /\ SubSeq(s, 1, Len(prefix)) = prefix

\* lines.pop(index)
ListPop(lines, index) ==
    SubSeq(lines, 1, index) \o SubSeq(lines, index + 2, Len(lines))

\* lines.insert(index, string)
ListInsert(lines, index, string) ==
    SubSeq(lines, 1, index) \o <<string>>
        \o SubSeq(lines, index + 1, Len(lines))

\* The context parse_context yields for
\*   clock x, x5;   const int N = 10;   int t = 0;
PatchContext ==
    [clocks |-> {"x", "x5"},
     constants |-> [i \in {"N"} |-> 10],
     initial_state |-> [i \in {"t"} |-> 0]]

\* Expression.to_string: " ".join([self.lhs, self.op, self.rhs]), a side
\* of two clocks being their difference
Expression_to_string(exp) ==
    str_join(" ", <<str_join(" - ", exp.lhs), exp.op,
                    str_join(" - ", exp.rhs)>>)

\* to_string(escape=True): the replacements made on the text
escape(res) ==
    str_replace(str_replace(str_replace(str_replace(str_replace(
        res, "&", "&amp;"), "\"", "&apos;"), "<", "&lt;"), ">", "&gt;"),
        "'", "&quot;")

\* The associated file: one template, the location id0 with a name and an
\* invariant, the location id1 with neither, a transition with a guard
\* and a transition without
AssociatedFile ==
    <<"<nta>\n",
      "\t<template>\n",
      "\t\t<name>T</name>\n",
      "\t\t<location id=\"id0\" x=\"0\" y=\"0\">\n",
      "\t\t\t<name x=\"0\" y=\"0\">l0</name>\n",
      "\t\t\t<label kind=\"invariant\" x=\"0\" y=\"0\">x5 &lt;= 5 &amp;&amp; x &lt; 10</label>\n",
      "\t\t</location>\n",
      "\t\t<location id=\"id1\" x=\"0\" y=\"0\">\n",
      "\t\t</location>\n",
      "\t\t<init ref=\"id0\"/>\n",
      "\t\t<transition>\n",
      "\t\t\t<source ref=\"id0\"/>\n",
      "\t\t\t<target ref=\"id1\"/>\n",
      "\t\t\t<label kind=\"guard\" x=\"0\" y=\"0\">x &gt; t</label>\n",
      "\t\t</transition>\n",
      "\t\t<transition>\n",
      "\t\t\t<source ref=\"id1\"/>\n",
      "\t\t\t<target ref=\"id0\"/>\n",
      "\t\t</transition>\n",
      "\t</template>\n",
      "</nta>\n">>

\* The objects a patch refers to: the locations by their id, the
\* transitions by their place in template.graph._transitions
PatchObjects ==
    {[type |-> "Location", id |-> id] : id \in {"id0", "id1"}}
       \cup {[type |-> "Transition", index |-> k] : k \in {0, 1}}

\* The NTA NTA.from_xml builds from the associated file: the constraints of
\* the invariant of each location and of the guard of each transition
\* (none: no label), and the empty patch cache.  made lists the changes
\* made to the labels, in order.
ParsedNTA ==
    [context |-> PatchContext,
     invariant |-> [id \in {"id0", "id1"} |->
                      IF id = "id0"
                      THEN <<parse_expr(<<"x5">>, "<=", <<"5">>, PatchContext),
                             parse_expr(<<"x">>, "<", <<"10">>, PatchContext)>>
                      ELSE <<>>],
     guard |-> [k \in {0, 1} |->
                  IF k = 0 THEN <<parse_expr(<<"x">>, ">", <<"t">>, PatchContext)>> ELSE <<>>],
     file |-> AssociatedFile,
     patches |-> <<>>,
     made |-> <<>>]

\* obj.invariant / obj.guard
LabelOf(T, obj) ==
    IF obj.type = "Location" THEN T.invariant[obj.id] ELSE T.guard[obj.index]

SetLabel(T, obj, constraints) ==
    IF obj.type = "Location"
    THEN [T EXCEPT !.invariant[obj.id] = constraints]
    ELSE [T EXCEPT !.guard[obj.index] = constraints]

\* The three changes.  flag is remove_label of a ConstraintRemove and
\* "newly_created is not None" of a ConstraintInsert, kind the kind of the
\* newly created label.
ConstraintRemove(constraint, remove_label) ==
    [class |-> "ConstraintRemove", constraint |-> constraint,
     flag |-> remove_label, kind |-> "", old |-> "", new |-> ""]

ConstraintInsert(constraint, newly_created, kind) ==
    [class |-> "ConstraintInsert", constraint |-> constraint,
     flag |-> newly_created, kind |-> kind, old |-> "", new |-> ""]

ConstraintUpdate(constraint, new_threshold) ==
    [class |-> "ConstraintUpdate", constraint |-> constraint,
     flag |-> FALSE, kind |-> "", old |-> threshold(constraint),
     new |-> new_threshold]

ConstraintPatch(template_ref, change, obj_ref) ==
    [template_ref |-> template_ref, change |-> change, obj_ref |-> obj_ref]

\* ConstraintUpdate.generate_new_constraint: a copy with the threshold
\* side set to the new threshold
generate_new_constraint(change) ==
    IF change.constraint.threshold_side = "left"
    THEN [change.constraint EXCEPT !.lhs = <<change.new>>]
    ELSE [change.constraint EXCEPT !.rhs = <<change.new>>]

\* the text between the '>' of the label's start and the '<' of its end,
\* as [start, end]; start = 0 or end = -1 when index raises ValueError
TextBounds(constraint_line) ==
    [start |-> str_find(constraint_line, ">", 0) + 1,
     end |-> IF str_find(constraint_line, ">", 0) = -1 THEN -1
             ELSE str_find(constraint_line, "<",
                           str_find(constraint_line, ">", 0) + 1)]

\* the first constraint whose text without blanks is the comparison
\* string, 0 (no position of a list) when none is
Matching(constraints, comparison_string) ==
    IF \E i \in DOMAIN constraints :
          str_replace(constraints[i], " ", "") = comparison_string
    THEN CHOOSE i \in DOMAIN constraints :
            /\ str_replace(constraints[i], " ", "") = comparison_string
            /\ \A j \in 1..(i - 1) :
                  str_replace(constraints[j], " ", "") # comparison_string
    ELSE 0

\* _find_matching_constraint of a ConstraintRemove and of a
\* ConstraintUpdate
find_matching_constraint(change, constraints) ==
    Matching(constraints,
             IF change.class = "ConstraintRemove"
             THEN str_replace(
                     escape(Expression_to_string(change.constraint)),
                     " ", "")
             ELSE str_replace(
                     str_replace(
                        escape(Expression_to_string(change.constraint)),
                        " ", ""),
                     threshold(change.constraint), change.old))

\* what a call leaves: the lines, and whether it raised
Outcome(raised, lines) == [raised |-> raised, lines |-> lines]

\* the line at index with the text between start and end replaced
WithText(lines, index, bounds, text) ==
    [lines EXCEPT ![index + 1] =
        SubSeq(@, 1, bounds.start) \o text
            \o SubSeq(@, bounds.end + 1, Len(@))]

\* ConstraintRemove.patch_line
Remove_patch_line(change, lines, index) ==
    IF index >= Len(lines) THEN Outcome(TRUE, lines)
    ELSE IF change.flag THEN Outcome(FALSE, ListPop(lines, index))
    ELSE
    LET constraint_line == lines[index + 1]
        bounds == TextBounds(constraint_line)
        constraints == str_split(SubSeq(constraint_line, bounds.start + 1,
                                        bounds.end),
                                 " &amp;&amp; ")
        found == find_matching_constraint(change, constraints)
    IN  IF bounds.start = 0 \/ bounds.end = -1 THEN Outcome(TRUE, lines)
        ELSE IF found = 0 THEN Outcome(TRUE, lines)
        ELSE Outcome(FALSE, WithText(lines, index, bounds,
                              str_join(" &amp;&amp; ",
                                       ListPop(constraints, found - 1))))

\* tabs * "\t"
RECURSIVE Tabs(_)
Tabs(tabs) == IF tabs = 0 THEN "" ELSE "\t" \o Tabs(tabs - 1)

\* ConstraintInsert.patch_line; the new label is at (0, 0)
Insert_patch_line(change, lines, index, parent_index) ==
    IF change.flag
    THEN IF parent_index >= Len(lines)
            \/ str_find(lines[parent_index + 1], "<", 0) = -1
         THEN Outcome(TRUE, lines)
         ELSE Outcome(FALSE, ListInsert(
                 lines, index + 1,
                 Tabs(str_find(lines[parent_index + 1], "<", 0) + 1)
                    \o "<label kind=\"" \o change.kind
                    \o "\" x=\"0\" y=\"0\">"
                    \o escape(Expression_to_string(change.constraint))
                    \o "</label>\n"))
    ELSE IF index >= Len(lines) THEN Outcome(TRUE, lines)
    ELSE
    LET constraint_line == lines[index + 1]
        bounds == TextBounds(constraint_line)
    IN  IF bounds.start = 0 \/ bounds.end = -1 THEN Outcome(TRUE, lines)
        ELSE Outcome(FALSE, [lines EXCEPT ![index + 1] =
                        SubSeq(@, 1, bounds.end) \o " &amp;&amp; "
                           \o escape(Expression_to_string(change.constraint))
                           \o SubSeq(@, bounds.end + 1, Len(@))])

\* ConstraintUpdate.patch_line
Update_patch_line(change, lines, index) ==
    IF index >= Len(lines) THEN Outcome(TRUE, lines)
    ELSE
    LET constraint_line == lines[index + 1]
        bounds == TextBounds(constraint_line)
        constraints == str_split(SubSeq(constraint_line, bounds.start + 1,
                                        bounds.end),
                                 " &amp;&amp; ")
        update_index == find_matching_constraint(change, constraints)
    IN  IF bounds.start = 0 \/ bounds.end = -1 THEN Outcome(TRUE, lines)
        ELSE IF update_index = 0 THEN Outcome(TRUE, lines)
        ELSE Outcome(FALSE, WithText(
                lines, index, bounds,
                str_join(" &amp;&amp; ",
                         [constraints EXCEPT ![update_index] =
                             str_replace(@, change.old, change.new)])))

\* patch.change.patch_line(lines, index, parent_index)
patch_line(change, lines, index, parent_index) ==
    CASE change.class = "ConstraintRemove" ->
            Remove_patch_line(change, lines, index)
      [] change.class = "ConstraintInsert" ->
            Insert_patch_line(change, lines, index, parent_index)
      [] change.class = "ConstraintUpdate" ->
            Update_patch_line(change, lines, index)

\* "while curr_template_i < template_index": the index after the line
\* the template starts at, -1 when the lines run out (IndexError)
RECURSIVE TemplateStart(_, _, _, _)
TemplateStart(lines, i, curr_template_i, template_index) ==
    IF curr_template_i >= template_index THEN i
    ELSE IF i >= Len(lines) THEN -1
    ELSE TemplateStart(lines, i + 1,
                       IF startswith(str_strip(lines[i + 1]), "<template>")
                       THEN curr_template_i + 1 ELSE curr_template_i,
                       template_index)

\* "while loc_string not in lines[i]: i += 1"
RECURSIVE LocationLine(_, _, _)
LocationLine(lines, i, loc_string) ==
    IF i >= Len(lines) THEN -1
    ELSE IF str_find(lines[i + 1], loc_string, 0) # -1 THEN i
    ELSE LocationLine(lines, i + 1, loc_string)

\* the search for the invariant line in handle_loc: the line of the
\* invariant, else that of the name, else the one handed in
RECURSIVE InvariantLine(_, _, _)
InvariantLine(lines, i, target_index) ==
    IF i >= Len(lines) THEN -1
    ELSE IF startswith(str_strip(lines[i + 1]), "<label kind=\"invariant\"")
    THEN i
    ELSE IF startswith(str_strip(lines[i + 1]), "</location>")
    THEN target_index
    ELSE InvariantLine(lines, i + 1,
                       IF startswith(str_strip(lines[i + 1]), "<name x=\"")
                       THEN i ELSE target_index)

\* handle_loc
handle_loc(lines, i, loc, change) ==
    LET location_line_index ==
            LocationLine(lines, i, "<location id=\"" \o loc.id \o "\"")
        target_index ==
            InvariantLine(lines, location_line_index, location_line_index)
    IN  IF location_line_index = -1 \/ target_index = -1 THEN Outcome(TRUE, lines)
        ELSE patch_line(change, lines, target_index, location_line_index)

\* "while curr_trans < trans_index": the index after the line of the
\* transition
RECURSIVE TransitionStart(_, _, _, _)
TransitionStart(lines, i, curr_trans, trans_index) ==
    IF curr_trans >= trans_index THEN i
    ELSE IF i >= Len(lines) THEN -1
    ELSE TransitionStart(lines, i + 1,
                         IF startswith(str_strip(lines[i + 1]),
                                       "<transition>")
                         THEN curr_trans + 1 ELSE curr_trans,
                         trans_index)

\* the search for the guard line in handle_trans
RECURSIVE GuardLine(_, _, _)
GuardLine(lines, i, target_index) ==
    IF i >= Len(lines) THEN -1
    ELSE IF startswith(str_strip(lines[i + 1]), "<label kind=\"guard\"")
    THEN i
    ELSE IF startswith(str_strip(lines[i + 1]), "</transition>")
    THEN target_index
    ELSE GuardLine(lines, i + 1,
                   IF startswith(str_strip(lines[i + 1]),
                                 "<label kind=\"select\"")
                   THEN i ELSE target_index)

\* handle_trans
handle_trans(lines, i, trans, change) ==
    LET after == TransitionStart(lines, i, -1, trans.index)
        transition_line_index == after - 1
        target_index == GuardLine(lines, after, transition_line_index + 2)
    IN  IF after = -1 \/ target_index = -1 THEN Outcome(TRUE, lines)
        ELSE patch_line(change, lines, target_index, transition_line_index)

\* ConstraintCache._apply_single_patch
apply_single_patch(lines, patch) ==
    LET i == TemplateStart(lines, 0, -1, patch.template_ref)
    IN  IF i = -1 THEN Outcome(TRUE, lines)
        ELSE IF patch.obj_ref.type = "Location"
        THEN handle_loc(lines, i, patch.obj_ref, patch.change)
        ELSE handle_trans(lines, i, patch.obj_ref, patch.change)

\* ConstraintCache.apply_patches: the patches in cached order, up to the
\* first that raises
RECURSIVE apply_patches(_, _)
apply_patches(lines, patches) ==
    IF patches = <<>> THEN Outcome(FALSE, lines)
    ELSE IF apply_single_patch(lines, Head(patches)).raised
    THEN Outcome(TRUE, lines)
    ELSE apply_patches(apply_single_patch(lines, Head(patches)).lines,
                       Tail(patches))

\* NTA.flush_constraint_changes: the lines written to out_path
flush_constraint_changes(T) == apply_patches(T.file, T.patches)

\* join_expressions
join_expressions(exprs) ==
    str_join(" && ", [k \in DOMAIN exprs |-> Expression_to_string(exprs[k])])

\* NTA.to_file: the text of the invariant or guard label written for each
\* object, with the escaping of the text of an element, none for an object
\* without the label
to_file(T) ==
    [obj \in PatchObjects |->
        IF LabelOf(T, obj) = <<>> THEN [is_none |-> TRUE, text |-> ""]
        ELSE [is_none |-> FALSE,
              text |-> str_replace(str_replace(str_replace(
                          join_expressions(LabelOf(T, obj)),
                          "&", "&amp;"), "<", "&lt;"), ">", "&gt;")]]

\* The constraints handed to the change methods for insertion
InsertConstraints == {parse_expr(<<"x">>, "<", <<"3">>, PatchContext)}

\* change_location_constraint and change_transition_constraint up to the
\* construction of the patch: the label after the change and the change
\* built.  An insertion into an object without the label calls Constraint,
\* a name simplethings does not define, and raises with nothing changed.
ChangedLabel(constraints, operation, simple_constraint, new) ==
    LET index == CHOOSE i \in DOMAIN constraints :
                    /\ constraints[i] = simple_constraint
                    /\ \A j \in 1..(i - 1) : constraints[j] # simple_constraint
    IN  CASE operation = "insert" ->
                [built |-> constraints # <<>>,
                 constraints |-> IF constraints = <<>> THEN constraints
                                 ELSE Append(constraints, simple_constraint),
                 change |-> ConstraintInsert(simple_constraint, FALSE, "")]
          [] operation = "remove" ->
                [built |-> TRUE,
                 constraints |-> ListPop(constraints, index - 1),
                 change |-> ConstraintRemove(simple_constraint,
                                             Len(constraints) = 1)]
          [] operation = "update" ->
                [built |-> TRUE,
                 constraints |->
                    [constraints EXCEPT ![index] =
                        generate_new_constraint(
                           ConstraintUpdate(simple_constraint, new))],
                 change |-> ConstraintUpdate(simple_constraint, new)]

\* change_location_constraint / change_transition_constraint(obj,
\* operation=..., threshold_function=lambda old: new,
\* simple_constraint=...).  The patch is built with the keyword
\* location_ref or transition_ref, which ConstraintPatch does not take: the
\* call raises TypeError after the label is changed and caches nothing.
ChangeConstraint(obj, operation, simple_constraint, new) ==
    /\ Len(template.made) < MaxPatches
    /\ operation # "insert" => simple_constraint \in Range(LabelOf(template, obj))
    /\ \E r \in {ChangedLabel(LabelOf(template, obj), operation,
                               simple_constraint, new)} :
          /\ template' =
                [SetLabel(template, obj, r.constraints) EXCEPT
                    !.made = IF r.built
                             THEN Append(@, ConstraintPatch(0, r.change, obj))
                             ELSE @]
          /\ last' = [call |-> IF obj.type = "Location"
                               THEN "change_location_constraint"
                               ELSE "change_transition_constraint",
                      raised |-> TRUE]

\* the inputs of a change of obj; an update is handed the
\* threshold_function lambda old: "3"
ChangeInputs(T, obj) ==
    {<<"insert", c, "">> : c \in InsertConstraints}
       \cup {<<"remove", c, "">> : c \in Range(LabelOf(T, obj))}
       \cup {<<"update", c, "3">> :
                c \in {e \in Range(LabelOf(T, obj)) :
                          isinstance(e, "ClockConstraintExpression")}}

\* The patches handed to ConstraintCache.cache: those of the changes made,
\* and patches built on the labels as they are: an update of a constraint
\* of the object and the insertion of a new label
PatchInputs(T) ==
    Range(T.made)
       \cup {ConstraintPatch(0, ConstraintUpdate(LabelOf(T, obj)[1], "10"), obj) :
                obj \in {o \in PatchObjects : LabelOf(T, o) # <<>>}}
       \cup {ConstraintPatch(0, ConstraintInsert(
                                   c, TRUE,
                                   IF obj.type = "Location"
                                   THEN "invariant" ELSE "guard"), obj) :
                c \in InsertConstraints,
                obj \in {o \in PatchObjects : LabelOf(T, o) = <<>>}}

\* patch_cache.cache(patch)
Cache(patch) ==
    /\ Len(template.patches) < MaxPatches
    /\ template' = [template EXCEPT !.patches = Append(@, patch)]
    /\ last' = [call |-> "cache"]

\* flush_constraint_changes(out_path)
FlushConstraintChanges ==
    /\ last' = [call |-> "flush_constraint_changes",
                result |-> flush_constraint_changes(template)]
    /\ UNCHANGED template

\* to_file(path)
ToFile ==
    /\ last' = [call |-> "to_file", result |-> to_file(template)]
    /\ UNCHANGED template

\* the updates handed to patch_line: of the constraints of the file and
\* of one that is in no label
PatchLineInputs ==
    {ConstraintUpdate(parse_expr(<<s[1]>>, s[2], <<s[3]>>, PatchContext),
                      new) :
        s \in {<<"x5", "<=", "5">>, <<"x", "<", "10">>, <<"x", ">", "t">>,
               <<"x", "<", "5">>},
        new \in {"3", "10"}}

\* change.patch_line(lines, index) of a ConstraintUpdate on the lines of
\* the file as read
UpdatePatchLine(change, index) ==
    /\ template = ParsedNTA
    /\ last' = [call |-> "patch_line", change |-> change,
                lines |-> template.file, index |-> index,
                result |-> Update_patch_line(change, template.file, index)]
    /\ UNCHANGED template

InitPatch ==
    /\ template = ParsedNTA
    /\ last = [call |-> "none"]

NextPatch ==
    \/ \E obj \in PatchObjects : \E in \in ChangeInputs(template, obj) :
          ChangeConstraint(obj, in[1], in[2], in[3])
    \/ \E patch \in PatchInputs(template) : Cache(patch)
    \/ FlushConstraintChanges
    \/ ToFile
    \/ \E change \in PatchLineInputs :
          \E index \in 0..(Len(template.file) - 1) :
             UpdatePatchLine(change, index)

SpecPatch == InitPatch /\ [][NextPatch]_vars

(***************************************************************************)
(* Properties.                                                             *)
(***************************************************************************)
\* last holds a realizability call that returned a tuple
Returned ==
    /\ last.call \in {"path_realizable", "path_realizable_with_initial_valuation"}
    /\ ~last.result.raised

Verdict == last.result.ret[1]

\* l0 --t1 (x <= 10)--> l1 --t2 (x >= 11, x = 0)--> l2, x <= 10 on l0 and
\* no invariant on l1 and l2; path_realizable([l0, t1, l1, t2, l2])
ScenarioWithGuard11 ==
    /\ template.invariant[0] = <<Parsed("x", "<=", "10")>>
    /\ template.invariant[1] = <<>>
    /\ template.invariant[2] = <<>>
    /\ template.guard[0] = <<Parsed("x", "<=", "10")>>
    /\ template.guard[1] = <<Parsed("x", ">=", "11")>>
    /\ get_resets(template.assignment[0]) = <<>>
    /\ get_resets(template.assignment[1]) = <<"x">>
    /\ last.call = "path_realizable"
    /\ last.path = <<0, 0, 1, 1, 2>>

\* C1 as stated: on the scenario with the guard x >= 11 on t2,
\* path_realizable reports the path not realizable.
C1_NotRealizable == ScenarioWithGuard11 => Verdict = FALSE

\* C1 amended: on the scenario with the guard x >= 11 on t2, path_realizable
\* reports the path realizable (x <= 10 bounds the stay in l0 only; the delay
\* in l1 lets x reach 11).
C1_Realizable == ScenarioWithGuard11 => Returned /\ Verdict = TRUE

C1_Witness == ScenarioWithGuard11 /\ Returned /\ ~last.add_epsilon

\* Some transition of the path does not lead from the location before it
\* to the location after it.
Malformed(path) ==
    \E k \in 1..(Len(path) \div 2) :
        \/ template.source[path[2 * k]] # path[2 * k - 1]
        \/ template.target[path[2 * k]] # path[2 * k + 1]

RealizabilityCall ==
    last.call \in {"path_realizable", "path_realizable_with_initial_valuation"}

\* C7: with validate_path a malformed path yields (False, []) as a normal
\* result: nothing is raised and no LP is built or solved.
C7_MalformedIsFalse ==
    (RealizabilityCall /\ last.validate_path /\ Malformed(last.path)) =>
        /\ ~last.result.raised
        /\ last.result.ret = <<FALSE, <<>>>>
        /\ ~last.result.solved
        /\ last.result.A = <<>>

C7_Witness ==
    /\ RealizabilityCall /\ last.validate_path /\ Malformed(last.path)
    /\ last.result.ret = <<FALSE, <<>>>>

\* The rows of the LP as the solver gets them
LPRows == {[a |-> r.a, b |-> r.b] : r \in Range(last.result.A)}

\* the unit row of variable i over the variables of the LP
Unit(i, sign) ==
    [j \in 0..(last.result.var_count - 1) |-> IF j = i THEN sign ELSE 0]

\* last is a call with icv_constants that names a clock used on the path
PinnedCall ==
    /\ Returned
    /\ last.result.solved
    /\ ~last.icv_constants.is_none
    /\ \E c \in DOMAIN last.icv_constants.dict :
          c \in Range(find_used_clocks(template, last.path))

\* C5: for a clock c that icv_constants maps to v the LP holds the rows
\* -icv <= -v and icv <= v, and the verdict is that of the path's rows
\* with c entering at exactly v.
C5_PinnedToValue ==
    PinnedCall =>
        LET clocks == find_used_clocks(template, last.path)
            pinned == {i \in 0..(Len(clocks) - 1) :
                          clocks[i + 1] \in DOMAIN last.icv_constants.dict}
            v(i) == last.icv_constants.dict[clocks[i + 1]] * Scale
            pins == UNION {{[a |-> Unit(i, -1), b |-> -v(i)],
                            [a |-> Unit(i, 1), b |-> v(i)]} : i \in pinned}
            others == {r \in Range(last.result.A) : r.part # "icv"}
        IN  /\ pins \subseteq LPRows
            /\ Verdict = FeasibleSet(
                             pins \cup {[a |-> r.a, b |-> r.b] : r \in others},
                             last.result.var_count)

(***************************************************************************)
(* Timed runs.  A run along a path gives each location but the last a      *)
(* delay; all clocks start at 0 and advance together; the invariant of a   *)
(* location is evaluated on leaving it, the guard on taking the            *)
(* transition, the invariant of the next location on entering it, after    *)
(* the resets and updates.                                                 *)
(***************************************************************************)
\* the value of one side of a constraint
SideValue(side, val, ctx) ==
    IF Len(side) = 2 THEN val[side[1]] - val[side[2]]
    ELSE IF is_clock(ctx, side[1]) THEN val[side[1]]
    ELSE get_val(ctx, side[1])

Holds(exp, val, ctx) ==
    LET l == SideValue(exp.lhs, val, ctx)
        r == SideValue(exp.rhs, val, ctx)
    IN  CASE exp.op = "<"  -> l < r
          [] exp.op = "<=" -> l <= r
          [] exp.op = ">"  -> l > r
          [] exp.op = ">=" -> l >= r
          [] exp.op = "==" -> l = r

ClockConstraints(label) ==
    {c \in Range(label) : isinstance(c, "ClockConstraintExpression")}

AllHold(label, val, ctx) ==
    \A c \in ClockConstraints(label) : Holds(c, val, ctx)

RECURSIVE RunHolds(_, _, _, _, _)
RunHolds(path, delays, seg, val, ctx) ==
    IF seg >= Len(path) \div 2 THEN TRUE
    ELSE
    LET t == path[2 * seg + 2]
        later == [c \in DOMAIN val |-> val[c] + delays[seg]]
        resets == Range(get_resets(Assignment(template, t)))
        after == [c \in DOMAIN val |-> IF c \in resets THEN 0 ELSE later[c]]
        ctx2 == HandleUpdates(get_other_updates(Assignment(template, t)), ctx)
    IN  /\ AllHold(Invariant(template, path[2 * seg + 1]), later, ctx)
        /\ AllHold(Guard(template, t), later, ctx)
        /\ AllHold(Invariant(template, path[2 * seg + 3]), after, ctx2)
        /\ RunHolds(path, delays, seg + 1, after, ctx2)

\* every threshold of the model is an integer of at most LargestLiteral,
\* so a path that has a run has one with integer delays up to it
LargestLiteral ==
    CHOOSE m \in Range(IntOf) : \A k \in Range(IntOf) : k <= m

ZeroValuation == [c \in ParsedContext.clocks |-> 0]

HasRun(path) ==
    \E delays \in [0..(Len(path) \div 2 - 1) -> 0..LargestLiteral] :
        RunHolds(path, delays, 0, ZeroValuation,
                 to_MutableContext(template.context))

\* all clock constraints met on the path
PathConstraints(path) ==
    UNION {ClockConstraints(get_constraints(template, path, k)) :
              k \in 1..Len(path)}

EqualityGuards(path) ==
    UNION {{c \in ClockConstraints(Guard(template, path[2 * g])) :
               c.op = "=="} : g \in 1..(Len(path) \div 2)}

\* last is a path_realizable call on a path with an equality guard and no
\* strict constraint, variable thresholds not skipped
EqualityCall ==
    /\ last.call = "path_realizable"
    /\ last.result.solved
    /\ ~last.validate_state
    /\ EqualityGuards(last.path) # {}
    /\ \A c \in PathConstraints(last.path) : c.op \in {"<=", ">=", "=="}

RelaxedRows ==
    path_realizable_with_initial_valuation(
        template, last.path, last.validate_path, last.validate_state, FALSE,
        NoneIcv)

\* The relaxed system has a solution, the system with the strict
\* inequalities kept strict has none
TightBoundary ==
    /\ last.call = "path_realizable"
    /\ RelaxedRows.solved
    /\ FeasibleSet({[a |-> r.a, b |-> r.b, strict |-> FALSE] :
                       r \in Range(RelaxedRows.A)}, RelaxedRows.var_count)
    /\ ~FeasibleSet({[a |-> r.a, b |-> r.b, strict |-> r.strict] :
                        r \in Range(RelaxedRows.A)}, RelaxedRows.var_count)

\* C3: on a path that is feasible only with a strict inequality met with
\* equality, path_realizable answers True without add_epsilon and False
\* with it.
C3_EpsilonDecides == TightBoundary => Verdict = ~last.add_epsilon

C3_Witness == TightBoundary /\ last.add_epsilon /\ Verdict = FALSE

\* The segments of the path whose transition resets clock c
ResetSegments(c, path) ==
    {g \in 0..(Len(path) \div 2 - 1) :
        c \in Range(get_resets(Assignment(template, path[2 * g + 2])))}

\* The resets of c that a row was built after
ResetsBefore(c, r) ==
    {g \in ResetSegments(c, last.path) :
        g < r.seg \/ (g = r.seg /\ r.part = "target")}

DelayVarOffset ==
    IF last.icv_constants.is_none THEN 0
    ELSE Len(find_used_clocks(template, last.path))

\* the delay variables of the locations visited after segment g up to the
\* segment of row r
DelaysSince(g, r) == {DelayVarOffset + k : k \in (g + 1)..r.seg}

Max(S) == CHOOSE m \in S : \A k \in S : k <= m

\* C4: a row on a clock c built after a reset of c takes from c the delay
\* variables of the locations visited after the last such reset and
\* nothing else: no earlier delay variable, no initial-valuation variable,
\* and nothing at all at the reset's target location.
C4_ResetForgets ==
    (Returned /\ last.result.solved) =>
        \A r \in Range(last.result.A) :
            r.part # "icv" =>
               \A n \in DOMAIN r.clocks :
                   ResetsBefore(r.clocks[n], r) # {} =>
                      LET g == Max(ResetsBefore(r.clocks[n], r))
                      IN  /\ Range(r.used[n]) = DelaysSince(g, r)
                          /\ Len(r.clocks) = 1 =>
                                {j \in DOMAIN r.a : r.a[j] # 0}
                                   = DelaysSince(g, r)

\* a row at the target of a reset, one of its clocks reset there and
\* another reset one segment earlier
C4_Witness ==
    /\ Returned /\ last.result.solved
    /\ \E r \in Range(last.result.A) :
          /\ r.part = "target"
          /\ \E n, m \in DOMAIN r.clocks :
                /\ r.seg \in ResetSegments(r.clocks[n], last.path)
                /\ r.used[n] = <<>>
                /\ ResetsBefore(r.clocks[m], r) = {r.seg - 1}
                /\ r.used[m] = <<DelayVarOffset + r.seg>>

\* last is the sub-path check of the tests: validate_path and an empty
\* icv_constants, on a sub-path of at least one transition
SubPathCall ==
    /\ last.call = "path_realizable_with_initial_valuation"
    /\ last.validate_path
    /\ ~last.icv_constants.is_none
    /\ DOMAIN last.icv_constants.dict = {}
    /\ Len(last.path) >= 3

\* the positions (0-based segment index) at which sub occurs in path
Occurrences(sub, path) ==
    {j \in 0..((Len(path) - Len(sub)) \div 2) :
        SubSeq(path, 2 * j + 1, 2 * j + Len(sub)) = sub}

\* the paths path_realizable(path, validate_path=True) accepts
RealizablePaths ==
    {w \in UNION {Walks(template, k) : k \in 1..MaxSegments} :
        path_realizable(template, w, TRUE, FALSE, FALSE).ret[1] = TRUE}

\* some transition of path before segment j updates a variable
UpdatesBefore(path, j) ==
    \E g \in 0..(j - 1) :
        get_other_updates(Assignment(template, path[2 * g + 2])) # <<>>

\* C6 as claimed: every contiguous sub-path of a realizable path is
\* realizable with all initial clock valuations free.
C6_EverySubPath ==
    SubPathCall =>
        \A w \in RealizablePaths :
            Occurrences(last.path, w) # {} => Verdict = TRUE

\* C6: every contiguous sub-path of a realizable path that no variable
\* update precedes on that path is realizable with all initial clock
\* valuations free.
C6_SubPathInitialVariables ==
    SubPathCall =>
        \A w \in RealizablePaths :
            (\E j \in Occurrences(last.path, w) : ~UpdatesBefore(w, j))
               => Verdict = TRUE

\* a proper sub-path, entered after the first location of the path
C6_Witness ==
    /\ SubPathCall
    /\ Verdict = TRUE
    /\ \E w \in RealizablePaths :
          /\ Len(w) > Len(last.path)
          /\ \E j \in Occurrences(last.path, w) :
                j > 0 /\ ~UpdatesBefore(w, j)
          /\ PathConstraints(last.path) # {}

\* C8: the LP of a single-location path holds the rows of the location's
\* invariant, and path_realizable reports the path realizable exactly when
\* the invariant holds with all clocks at 0.
C8_SingleLocationInvariant ==
    (last.call = "path_realizable" /\ Len(last.path) = 1
        /\ ~last.validate_state) =>
        LET inv == Invariant(template, last.path[1])
        IN  /\ ClockConstraints(inv) # {} => last.result.A # <<>>
            /\ Verdict = AllHold(inv, ZeroValuation,
                                 to_MutableContext(template.context))

\* last holds the table find_all_semi_realizable_paths returned
TableReturned == last.call = "find_all_semi_realizable_paths"

\* the realizability check with free initial clock valuations
SemiRealizable(T, path) ==
    LET r == path_realizable_with_initial_valuation(
                T, path, FALSE, FALSE, FALSE, Icv(<<>>))
    IN  ~r.raised /\ r.ret[1]

\* C9: every path stored in DP[i][k][l], l >= 1, passed the realizability
\* check with free initial clock valuations.
C9_StoredPathsPassed ==
    TableReturned =>
        \A c \in DOMAIN last.DP :
            c[3] >= 1 =>
                \A p \in Range(last.DP[c]) : SemiRealizable(template, p)

\* C10: for l in 1..max_length, DP[i][j][l] is empty if and only if the
\* template has no semi-realizable path of exactly l transitions from i to j.
C10_EmptyIffNone ==
    TableReturned =>
        \A c \in DOMAIN last.DP :
            c[3] >= 1 =>
                (last.DP[c] = <<>>
                    <=> ~\E w \in Walks(template, c[3]) :
                            /\ w[1] = c[1]
                            /\ w[Len(w)] = c[2]
                            /\ SemiRealizable(template, w))

\* C11: no cell of the table holds the same path twice.
C11_NoDuplicates ==
    TableReturned =>
        \A c \in DOMAIN last.DP :
            \A a, b \in DOMAIN last.DP[c] :
                a # b => last.DP[c][a] # last.DP[c][b]

\* a stored path of three transitions that two split points produce
C11_Witness ==
    /\ TableReturned
    /\ last.max_length >= 3
    /\ \E c \in DOMAIN last.DP :
          /\ c[3] = 3
          /\ \E p \in Range(last.DP[c]) :
                Cardinality({n \in DOMAIN Candidates(last.DP, 3) :
                                Candidates(last.DP, 3)[n] = p}) >= 2

\* C12: DP[i][i][0] is the one-element list holding the path [i], for every
\* node i, whatever the later levels of the construction added elsewhere.
C12_BaseCase ==
    TableReturned =>
        \A i, j \in Locations :
            last.DP[<<i, j, 0>>] = IF i = j THEN << <<i>> >> ELSE <<>>

\* a table whose levels 1 to 3 were built, with a cycle through i
C12_Witness ==
    /\ TableReturned
    /\ \E i \in Locations :
          /\ <<i, i, 3>> \in DOMAIN last.DP
          /\ last.DP[<<i, i, 3>>] # <<>>
          /\ last.DP[<<i, i, 0>>] = << <<i>> >>

(***************************************************************************)
(* The graph functions.                                                    *)
(***************************************************************************)
\* Some path stored for node n from the initial location passes
\* path_realizable(p, validate_path=True, validate_state=True) with a true
\* result.
PassesCheck(T, table, n) ==
    \E c \in DOMAIN table :
        /\ c[1] = T.initial_location /\ c[2] = n
        /\ \E p \in Range(table[c]) :
              LET ret == path_realizable(T, p, TRUE, TRUE, FALSE).ret
              IN  Len(ret) > 0 /\ ret[1]

\* C13: after find_reachable_locations(template, table) a node is tagged
\* exactly when some path stored for it in table[initial][n][k] passes
\* path_realizable(p, True, True) with a true result.
C13_TaggedIffRealizable ==
    last.call = "find_reachable_locations" =>
        /\ ~last.result.raised
        /\ \A n \in Locations :
              last.result.tag[n] <=> PassesCheck(template, last.table, n)

\* C14: reachability_analysis returns exactly the nodes that
\* find_reachable_locations tagged, and the initial location is among them
\* whenever the table holds its path of length 0.
C14_ReturnsTagged ==
    last.call = "reachability_analysis" =>
        /\ ~last.result.raised
        /\ last.result.res = {n \in Locations : last.marked.tag[n]}
        /\ (\E c \in DOMAIN last.table :
               /\ c = <<template.initial_location,
                        template.initial_location, 0>>
               /\ <<template.initial_location>> \in Range(last.table[c]))
              => template.initial_location \in last.result.res

\* The untagged nodes from which a node of U is reached through untagged
\* nodes only
RECURSIVE UntaggedAncestors(_, _, _)
UntaggedAncestors(T, tag, U) ==
    LET more == {n \in Locations :
                    /\ ~tag[n]
                    /\ \E t \in DOMAIN T.source :
                          T.source[t] = n /\ T.target[t] \in U}
    IN  IF more \subseteq U THEN U
        ELSE UntaggedAncestors(T, tag, U \cup more)

\* The closest tagged ancestors of the targets, every branch followed
\* backwards until it meets a tagged node
Frontier(T, tag, target_set) ==
    LET U == UntaggedAncestors(T, tag, {n \in target_set : ~tag[n]})
    IN  {n \in Locations :
            /\ tag[n]
            /\ \/ n \in target_set
               \/ \E t \in DOMAIN T.source :
                     T.source[t] = n /\ T.target[t] \in U}

\* C15: furthest_reachable returns the frontier of the closest reachable
\* ancestors of the targets, the expansion stopped branch by branch.
C15_Frontier ==
    last.call = "furthest_reachable" =>
        /\ last.result.status = "returned"
        /\ last.result.res =
              Frontier(template,
                       [n \in Locations |->
                           PassesCheck(template, last.table, n)],
                       last.target_set)

\* Every transition of the list leads from the location named before it
\* to the location named after it.
FollowsEdges(T, lst) ==
    \A k \in 1..(Len(lst) \div 2) :
        /\ T.source[lst[2 * k]] = NamedLocations[lst[2 * k - 1]]
        /\ T.target[lst[2 * k]] = NamedLocations[lst[2 * k + 1]]

\* C16 as stated: every path convert_to_path builds from the template's
\* named locations and indices into its transition list satisfies
\* path_exists.
C16_ConvertedPathExists ==
    last.call = "convert_to_path" => path_exists(template, last.path)

\* C16, amended: convert_to_path builds a path of the named locations and
\* the indexed transitions for any such list, and the path satisfies
\* path_exists exactly when every listed transition leads from the
\* location listed before it to the location listed after it.
C16_ExistsIffListFollowsEdges ==
    last.call = "convert_to_path" =>
        /\ Len(last.path) = Len(last.lst)
        /\ path_exists(template, last.path)
              <=> FollowsEdges(template, last.lst)

C16_Witness ==
    /\ last.call = "convert_to_path"
    /\ Len(last.lst) = 5
    /\ FollowsEdges(template, SubSeq(last.lst, 1, 3))
    /\ ~path_exists(template, last.path)

\* C17: path_exists is true exactly when every transition of the path has
\* the element before it as its source and the element after it as its
\* target.
C17_ExistsIffConnected ==
    last.call = "path_exists" => (last.result <=> ~Malformed(last.path))

C17_Witness ==
    /\ last.call = "path_exists"
    /\ Len(last.path) = 5
    /\ template.source[last.path[4]] = last.path[3]
    /\ template.target[last.path[4]] # last.path[5]
    /\ ~last.result

\* the transitions from the last location of p1 to the first one of p2
Connecting(T, p1, p2) ==
    {t \in DOMAIN T.source :
        T.source[t] = p1[Len(p1)] /\ T.target[t] = p2[1]}

\* C18: concatenate_paths returns one path p1 + [t] + p2 for every
\* transition t from the last location of p1 to the first location of p2,
\* parallel transitions counted one by one and each path of length
\* len(p1) + len(p2) + 1; it returns [] and raises nothing when there is
\* none, and it leaves p1 and p2 as they were.
C18_OnePathPerTransition ==
    last.call = "concatenate_paths" =>
        /\ ~last.result.raised
        /\ Len(last.result.res)
              = Cardinality(Connecting(template, last.p1, last.p2))
        /\ Range(last.result.res)
              = {last.p1 \o <<t>> \o last.p2 :
                    t \in Connecting(template, last.p1, last.p2)}
        /\ \A k \in DOMAIN last.result.res :
              Len(last.result.res[k]) = Len(last.p1) + Len(last.p2) + 1
        /\ last.result.p1 = last.p1
        /\ last.result.p2 = last.p2

C18_Witness ==
    /\ last.call = "concatenate_paths"
    /\ Len(last.result.res) = 2
    /\ Len(last.p1) = 3
    /\ Len(last.p2) = 3

(***************************************************************************)
(* Contexts.                                                               *)
(***************************************************************************)
\* C19: once mc = ctx.to_MutableContext() is made, set_val calls on mc,
\* those of handle_update included, leave what ctx.get_val returns and
\* which identifiers are clocks, constants and variables of ctx as they
\* were when ctx was built.
C19_OriginalUnchanged ==
    (last.call = "get_val" /\ last.copied) =>
        /\ last.result = Context_get_val(last.args, last.identifier)
        /\ \A i \in Identifiers :
              /\ is_clock(Deref(last.heap, last.ctx), i)
                    <=> is_clock(last.args, i)
              /\ is_constant(Deref(last.heap, last.ctx), i)
                    <=> is_constant(last.args, i)
              /\ is_variable(Deref(last.heap, last.ctx), i)
                    <=> is_variable(last.args, i)

C19_Witness ==
    /\ last.call = "get_val" /\ last.copied
    /\ last.sets = 2
    /\ last.identifier = "n"
    /\ ~last.result.raised
    /\ Len(last.heap) = 6
    /\ "n" \in DOMAIN last.heap[6]
    /\ last.heap[6]["n"] # last.result.value

\* C20: get_val fails whenever the identifier is a clock of the context,
\* whatever context the constructor or parse_context built.
C20_ClockFails ==
    (last.call = "get_val"
        /\ is_clock(Deref(last.heap, last.ctx), last.identifier))
       => last.result.raised

(***************************************************************************)
(* Thresholds, resets and invariants in the rows.                          *)
(***************************************************************************)
\* The check find_all_semi_realizable_paths made of a path it stored
StoredPathCheck(p) ==
    path_realizable_with_initial_valuation(template, p, FALSE, FALSE, FALSE,
                                           Icv(<<>>))

\* C23: no realizability check made while the table is populated builds
\* a row from a clock constraint whose threshold is a variable.
C23_NoVariableThresholdRows ==
    TableReturned =>
        \A c \in DOMAIN last.DP :
            \A p \in Range(last.DP[c]) :
                \A r \in Range(StoredPathCheck(p).A) :
                    r.part # "icv" =>
                       ~is_variable(template.context, r.threshold)

\* the updates made before a row was built: those of the transitions of
\* the earlier segments and, at the target location, those of the row's
\* own transition, in path order
RECURSIVE UpdatesUpTo(_, _)
UpdatesUpTo(path, g) ==
    IF g < 0 THEN <<>>
    ELSE UpdatesUpTo(path, g - 1)
            \o get_other_updates(Assignment(template, path[2 * g + 2]))

\* one update after the other, from the left
RECURSIVE Updated(_, _)
Updated(ctx, updates) ==
    IF updates = <<>> THEN ctx
    ELSE Updated(IF Head(updates).op = "="
                 THEN set_val(ctx, Head(updates).lhs,
                              get_val(ctx, Head(updates).rhs))
                 ELSE IF Head(updates).op = "+="
                 THEN set_val(ctx, Head(updates).lhs,
                              get_val(ctx, Head(updates).lhs)
                                 + get_val(ctx, Head(updates).rhs))
                 ELSE set_val(ctx, Head(updates).lhs,
                              get_val(ctx, Head(updates).lhs)
                                 - get_val(ctx, Head(updates).rhs)),
                 Tail(updates))

\* the value of the threshold of row r when its constraint is met
ThresholdWhenMet(r) ==
    get_val(Updated(template.context,
                    UpdatesUpTo(last.path,
                                IF r.part = "target" THEN r.seg
                                ELSE r.seg - 1)),
            r.threshold)

VariableRow(r) ==
    r.part # "icv" /\ is_variable(template.context, r.threshold)

\* C24: the row of a constraint with a variable threshold carries the
\* variable's value at the moment the constraint is met on the path: for
\* a source invariant and a guard the value after the updates of the
\* earlier transitions, for a target invariant the value after those of
\* its own transition too, updates taken from the left.
C24_ThresholdAtEncounter ==
    (Returned /\ last.result.solved) =>
        \A r \in Range(last.result.A) :
            VariableRow(r) =>
               Abs(Abs(r.b) - Abs(ThresholdWhenMet(r)) * Scale) <= EPS

\* the guard of a transition that updates n twice and the invariant of its
\* target, both on n
C24_Witness ==
    /\ Returned /\ last.result.solved
    /\ \E r, q \in Range(last.result.A) :
          /\ VariableRow(r) /\ VariableRow(q)
          /\ r.seg = q.seg /\ r.part = "guard" /\ q.part = "target"
          /\ Len(get_other_updates(
                    Assignment(template, last.path[2 * r.seg + 2]))) = 2
          /\ Abs(r.b) # Abs(q.b)

\* the variables clock c stands for at the start of the path
InitialVars(c) ==
    IF last.icv_constants.is_none THEN {}
    ELSE {i \in 0..(Len(find_used_clocks(template, last.path)) - 1) :
             find_used_clocks(template, last.path)[i + 1] = c}

\* the variables whose sum is the value of the n-th clock of row r: since
\* the last reset before the row, the delays of the locations visited, and
\* the initial valuation too when there was no reset
ClockVars(r, n) ==
    IF ResetsBefore(r.clocks[n], r) = {}
    THEN InitialVars(r.clocks[n]) \cup DelaysSince(-1, r)
    ELSE DelaysSince(Max(ResetsBefore(r.clocks[n], r)), r)

\* C25: the guard of a transition that resets clock c reads c before the
\* reset, with every delay since c's previous reset up to the delay at
\* the source location; the invariant of the target location reads the
\* reset value.
C25_GuardBeforeReset ==
    (Returned /\ last.result.solved) =>
        \A r \in Range(last.result.A) :
            r.part # "icv" =>
               \A n \in DOMAIN r.clocks :
                   r.seg \in ResetSegments(r.clocks[n], last.path) =>
                      /\ r.part \in {"source", "guard"} =>
                            /\ Range(r.used[n]) = ClockVars(r, n)
                            /\ DelayVarOffset + r.seg \in Range(r.used[n])
                      /\ r.part = "target" => r.used[n] = <<>>

C25_Witness ==
    /\ Returned /\ last.result.solved
    /\ \E r, q \in Range(last.result.A) :
          /\ r.part = "guard" /\ q.part = "target" /\ r.seg = q.seg
          /\ r.seg = 1
          /\ r.clocks = q.clocks
          /\ r.seg \in ResetSegments(r.clocks[1], last.path)
          /\ Len(r.used[1]) >= 2
          /\ q.used[1] = <<>>

\* the rows built from the invariant of the k-th location of the path
\* (0-based) with the clocks as they are at the given moment
AtEntry(k) ==
    {r \in Range(last.result.A) :
        \/ k > 0 /\ r.seg = k - 1 /\ r.part = "target"
        \/ k = 0 /\ r.part = "entry"}

AtExit(k) ==
    {r \in Range(last.result.A) : r.seg = k /\ r.part = "source"}

\* the clock constraints of the invariant of the k-th location the call
\* does not skip
InvariantConstraints(k) ==
    {c \in ClockConstraints(Invariant(template, last.path[2 * k + 1])) :
        ~(last.validate_state
             /\ is_variable(template.context, threshold(c)))}

\* C26: for every location of the path with an invariant the LP holds the
\* invariant's rows at the moment the location is entered, for the first
\* location at the initial valuation, and, unless it is the last
\* location, its rows at the moment it is left.
C26_InvariantWhileResiding ==
    (Returned /\ last.result.solved) =>
        \A k \in 0..(Len(last.path) \div 2) :
            InvariantConstraints(k) # {} =>
               /\ AtEntry(k) # {}
               /\ k < Len(last.path) \div 2 => AtExit(k) # {}

\* C27: every variable index a row takes from clock_to_delay lies in
\* [0, var_count) and is the clock's initial-valuation variable or the
\* delay of a location visited since the clock's last reset; the index
\* appended after the last segment, var_count, is in no row.
C27_IndicesInRange ==
    (Returned /\ last.result.solved) =>
        \A r \in Range(last.result.A) :
            r.part # "icv" =>
               \A n \in DOMAIN r.clocks :
                   /\ Range(r.used[n]) \subseteq
                         0..(last.result.var_count - 1)
                   /\ Range(r.used[n]) = ClockVars(r, n)
                   /\ Len(r.used[n]) = Cardinality(ClockVars(r, n))

\* a call with initial-valuation variables, a row in the last segment on
\* a clock never reset
C27_Witness ==
    /\ Returned /\ last.result.solved
    /\ ~last.icv_constants.is_none
    /\ Len(last.path) = 5
    /\ \E r \in Range(last.result.A) :
          /\ r.part = "target" /\ r.seg = 1
          /\ \E n \in DOMAIN r.clocks :
                /\ ResetsBefore(r.clocks[n], r) = {}
                /\ Len(r.used[n]) = 3
                /\ DelayVarOffset + 1 \in Range(r.used[n])
                /\ last.result.var_count
                      \in Range(last.result.clock_to_delay[r.clocks[n]])

\* the comparison read from the other side
Mirror(op) ==
    CASE op = "<" -> ">" [] op = "<=" -> ">=" [] op = ">" -> "<"
      [] op = ">=" -> "<=" [] op = "==" -> "=="

\* a label with every clock constraint whose threshold is on the left
\* written with the clock on the left
MirroredLabel(constraints) ==
    [k \in DOMAIN constraints |->
        IF isinstance(constraints[k], "ClockConstraintExpression")
              /\ constraints[k].threshold_side = "left"
        THEN parse_expr(constraints[k].rhs, Mirror(constraints[k].op),
                        constraints[k].lhs, template.context)
        ELSE constraints[k]]

MirroredTemplate ==
    [template EXCEPT
        !.invariant = [l \in DOMAIN template.invariant |->
                          MirroredLabel(template.invariant[l])],
        !.guard = [t \in DOMAIN template.guard |->
                      MirroredLabel(template.guard[t])]]

\* no label has been converted to text yet
Unserialised ==
    \A c \in TemplateClockConstraints(template) : Len(c.operator) = 1

\* C28: a clock constraint with its threshold on the left gives the rows
\* and the result of its mirrored form with the clock on the left.
C28_MirroredSameRows ==
    (Returned /\ last.result.solved /\ Unserialised) =>
        LET mirrored == path_realizable_with_initial_valuation(
                            MirroredTemplate, last.path, last.validate_path,
                            last.validate_state, last.add_epsilon,
                            last.icv_constants)
        IN  /\ [k \in DOMAIN last.result.A |->
                   <<last.result.A[k].a, last.result.A[k].b>>]
                 = [k \in DOMAIN mirrored.A |->
                      <<mirrored.A[k].a, mirrored.A[k].b>>]
            /\ last.result.ret = mirrored.ret

\* a template as Template.from_element builds it from the text of the
\* labels
Reparsed(constraints) ==
    [k \in DOMAIN constraints |->
        parse_expr(constraints[k].lhs, constraints[k].op,
                   constraints[k].rhs, template.context)]

ReparsedTemplate ==
    [template EXCEPT
        !.invariant = [l \in DOMAIN template.invariant |->
                          Reparsed(template.invariant[l])],
        !.guard = [t \in DOMAIN template.guard |->
                      Reparsed(template.guard[t])]]

\* C29: converting the labels to text leaves every constraint as it was
\* parsed, and a realizability check gives the result it gives on the
\* template never converted.
C29_ToStringKeepsConstraint ==
    /\ template = ReparsedTemplate
    /\ Returned =>
          last.result.ret =
             path_realizable_with_initial_valuation(
                ReparsedTemplate, last.path, last.validate_path,
                last.validate_state, last.add_epsilon,
                last.icv_constants).ret

ConstraintBag(text) ==
    LET parts == str_split(str_replace(text, " ", ""), "&amp;&amp;")
    IN  [c \in Range(parts) |->
            Cardinality({i \in DOMAIN parts : parts[i] = c})]

\* the text of a label line
LabelText(line) ==
    SubSeq(line, TextBounds(line).start + 1, TextBounds(line).end)

\* the positions of the lines of an object in the file: those after the
\* line it starts at and before the line it ends at
ObjectLines(lines, obj) ==
    LET starts == IF obj.type = "Location"
                  THEN {i \in DOMAIN lines :
                           str_find(lines[i],
                                    "<location id=\"" \o obj.id \o "\"",
                                    0) # -1}
                  ELSE {i \in DOMAIN lines :
                           /\ startswith(str_strip(lines[i]), "<transition>")
                           /\ Cardinality(
                                 {j \in 1..(i - 1) :
                                     startswith(str_strip(lines[j]),
                                                "<transition>")})
                                 = obj.index}
        closing == IF obj.type = "Location" THEN "</location>"
                   ELSE "</transition>"
    IN  {i \in DOMAIN lines :
            \E s \in starts :
               /\ s < i
               /\ \A j \in (s + 1)..i :
                     ~startswith(str_strip(lines[j]), closing)}

\* the positions of the invariant or guard label lines of an object
LabelLines(lines, obj) ==
    {i \in ObjectLines(lines, obj) :
        startswith(str_strip(lines[i]),
                   IF obj.type = "Location"
                   THEN "<label kind=\"invariant\""
                   ELSE "<label kind=\"guard\"")}

\* the lines carry for the object the label the object model has
SameLabel(lines, T, obj) ==
    IF to_file(T)[obj].is_none THEN LabelLines(lines, obj) = {}
    ELSE /\ Cardinality(LabelLines(lines, obj)) = 1
         /\ \A i \in LabelLines(lines, obj) :
               ConstraintBag(LabelText(lines[i]))
                  = ConstraintBag(to_file(T)[obj].text)

\* the patches cached are those of the changes made to the labels
CachedAsMade == template.patches = template.made

\* C21: with the patches of the changes made to the object model cached
\* in their order, flush_constraint_changes writes for every location and
\* transition an invariant or guard label with the constraints to_file
\* writes for it; with no patch cached it writes the lines of the file.
C21_FlushMatchesToFile ==
    last.call = "flush_constraint_changes" =>
        /\ CachedAsMade =>
              /\ ~last.result.raised
              /\ \A obj \in PatchObjects :
                    SameLabel(last.result.lines, template, obj)
        /\ template.patches = <<>> =>
              /\ ~last.result.raised
              /\ last.result.lines = template.file

\* the escaped text of a constraint, blanks dropped
Written(exp) == str_replace(escape(Expression_to_string(exp)), " ", "")

\* the constraints of the label text of a line
TextConstraints(line) == str_split(LabelText(line), " &amp;&amp; ")

\* the first constraint of the line that is the constraint of the patch
MatchingConstraints(line, exp) ==
    {i \in DOMAIN TextConstraints(line) :
        /\ str_replace(TextConstraints(line)[i], " ", "") = Written(exp)
        /\ \A j \in 1..(i - 1) :
              str_replace(TextConstraints(line)[j], " ", "") # Written(exp)}

IsLabelLine(line) ==
    /\ TextBounds(line).start # 0
    /\ TextBounds(line).end # -1

\* C22: ConstraintUpdate.patch_line leaves every line but the one at the
\* index as it is; in that line the constraint that matches the patch's
\* gets the new threshold with its clocks and its operator kept, and the
\* text around it and the other constraints stay; with no matching
\* constraint it raises and the lines are as they were.
C22_UpdateChangesThresholdOnly ==
    last.call = "patch_line" =>
        LET before == last.lines[last.index + 1]
            after == last.result.lines[last.index + 1]
            matching == IF IsLabelLine(before)
                        THEN MatchingConstraints(before,
                                                 last.change.constraint)
                        ELSE {}
        IN  /\ Len(last.result.lines) = Len(last.lines)
            /\ \A i \in DOMAIN last.lines :
                  i # last.index + 1 => last.result.lines[i] = last.lines[i]
            /\ matching = {} => last.result.raised /\ after = before
            /\ matching # {} =>
                  /\ ~last.result.raised
                  /\ IsLabelLine(after)
                  /\ SubSeq(after, 1, TextBounds(after).start)
                        = SubSeq(before, 1, TextBounds(before).start)
                  /\ Len(TextConstraints(after)) = Len(TextConstraints(before))
                  /\ \A i \in DOMAIN TextConstraints(before) :
                        IF i \in matching
                        THEN str_replace(TextConstraints(after)[i], " ", "")
                                = Written(generate_new_constraint(last.change))
                        ELSE TextConstraints(after)[i]
                                = TextConstraints(before)[i]

====
